---------------------------- MODULE Spec2Model ----------------------------
(***************************************************************************)
(* Transaction normalisation pipeline of crypto-tax-exporter: the API      *)
(* route (src/app/api/transactions/route.ts and its three earlier          *)
(* variants kept in src/unnamed), the classification rules, and the        *)
(* client side of src/app/page.tsx and its variants: the search form, the  *)
(* filter, the summary and the CSV export; the indexer adapter's delay     *)
(* under concurrent requests; and one browser session in which the user    *)
(* toggles the transaction type, searches again and exports, a row that    *)
(* makes the render throw leaving the page unmounted (crashed).            *)
(*                                                                         *)
(* Conventions.                                                            *)
(*  - A JavaScript number is a record [k, n, d, e]: k = "num" stands for   *)
(*    the rational n / (d * 10^e); k = "nan" is NaN; k = "undef" is the    *)
(*    value undefined (an absent JSON field).                              *)
(*  - A timestamp is the instant it denotes, in whole days; an ISO string  *)
(*    and the Date it parses to denote the same instant, and an invalid    *)
(*    Date makes toISOString throw, which the adapters model.              *)
(*  - wallet and hash are sequences of characters (slice and + act on      *)
(*    them); asset, side, chain are enumerated strings.                    *)
(*  - A text that is written to a file or split is a sequence of pieces,   *)
(*    the separators "," and "\n" being pieces of their own.               *)
(*  - Math.random() draws are parameters of the generators, chosen when    *)
(*    the generator runs (action Generate).                                *)
(***************************************************************************)
EXTENDS Integers, Sequences, FiniteSets, TLC

VARIABLES
    \* --- the deployed route and its environment
    variant,            \* which route file serves /api/transactions
    ALLIUM_API_KEY,     \* TRUE iff process.env.ALLIUM_API_KEY is non-empty
    ALCHEMY_API_KEY,    \* TRUE iff process.env.ALCHEMY_API_KEY is non-empty
    \* --- one GET request being served
    pc,                 \* "idle" | "awaiting" | "generating" | "done"
    req,                \* the query parameters of the request
    adapter,            \* the real adapter whose upstream call is awaited
    upstream,           \* how the awaited upstream call ended
    mockCall,           \* the generator call that is running
    building,           \* the response the handler sends once it has run
    resp,               \* the response sent (status, body)
    nresp,              \* number of responses sent for the request
    invoked,            \* adapters called while serving the request
    log,                \* console messages emitted while serving the request
    origin,             \* where the returned records came from
    \* --- classification rules applied to one indexer event
    tx,                 \* the raw event
    txOut,              \* what the rules computed from it
    \* --- the page
    transactions,       \* useState<Transaction[]>
    fetched,            \* the sequence the last fetch handed to setTransactions
    dateFilter, assetFilter, sideFilter, searchQuery,
    view,               \* the filtered view last rendered
    \* --- the page: the search form, the summary and the export
    pageVariant,        \* which page file is deployed
    transactionType,    \* useState<'spot' | 'perp'>
    walletInput,        \* useState wallet: the text of the address field
    chainSelect,        \* useState chain: the selected chain or exchange
    loading,            \* useState loading
    error,              \* useState error: the inline message, <<>> if none
    hasSearched,        \* useState hasSearched
    sent,               \* the requests made to /api/transactions
    summary,            \* the summary memo last rendered
    download,           \* the file the last export handed to the browser
    crashed,            \* a render has thrown: the page is replaced by the error page
    \* --- the indexer adapter serving concurrent requests
    clock,              \* the time, in ms
    calling,            \* per request: where its fetchAlliumTransactions stands
    alliumCalls         \* the times at which the upstream was called

serverVars == <<variant, ALLIUM_API_KEY, ALCHEMY_API_KEY, pc, req, adapter,
                upstream, mockCall, building, resp, nresp, invoked, log, origin>>
txVars     == <<tx, txOut>>
pageVars   == <<transactions, fetched, dateFilter, assetFilter, sideFilter,
                searchQuery, view>>
formVars   == <<pageVariant, transactionType, walletInput, chainSelect, loading,
                error, hasSearched, sent>>
exportVars == <<summary, download, crashed>>
clientVars == <<formVars, exportVars>>
rateVars   == <<clock, calling, alliumCalls>>
vars       == <<serverVars, txVars, pageVars, clientVars, rateVars>>

-----------------------------------------------------------------------------
(* Bounds of the model *)

MaxDelta == 1       \* raw balance deltas range over -MaxDelta..MaxDelta
MaxItems == 2       \* items in one upstream answer
MaxMock  == 2       \* records of a generator's output that are followed
MaxQty   == 1       \* Math.random() * k, as a whole number 0..MaxQty

-----------------------------------------------------------------------------
(* JavaScript numbers *)

Num(i)    == [k |-> "num", n |-> i, d |-> 1, e |-> 0]
NaN       == [k |-> "nan", n |-> 0, d |-> 1, e |-> 0]
Undefined == [k |-> "undef", n |-> 0, d |-> 1, e |-> 0]

IsNum(x)     == x.k = "num"
IsDefined(x) == x.k # "undef"
\* truthiness of a number-or-undefined: 0, NaN and undefined are falsy
Truthy(x)    == x.k = "num" /\ x.n # 0
\* a || b
OrElse(a, b) == IF Truthy(a) THEN a ELSE b
\* comparisons with 0; any comparison with NaN or undefined is false
Gt0(x) == x.k = "num" /\ x.n > 0
Lt0(x) == x.k = "num" /\ x.n < 0
Ge0(x) == x.k = "num" /\ x.n >= 0
IsZero(x) == x.k = "num" /\ x.n = 0
\* Math.abs
MathAbs(x) == IF x.k = "num" THEN [x EXCEPT !.n = IF x.n < 0 THEN -x.n ELSE x.n]
              ELSE NaN
\* -x
Neg(x) == IF x.k = "num" THEN [x EXCEPT !.n = -x.n] ELSE NaN
\* x / Math.pow(10, p), x / 1e9
DivPow10(x, p) == IF x.k = "num" THEN [x EXCEPT !.e = x.e + p] ELSE NaN
\* x / m for a positive whole m
DivInt(x, m) == IF x.k = "num" THEN [x EXCEPT !.d = x.d * m] ELSE NaN
\* x * y
Mul(x, y) == IF x.k = "num" /\ y.k = "num"
             THEN [k |-> "num", n |-> x.n * y.n, d |-> x.d * y.d, e |-> x.e + y.e]
             ELSE NaN

RECURSIVE ScaledEq(_, _, _)
\* a = b * 10^p, without computing 10^p
ScaledEq(a, b, p) == IF p = 0 THEN a = b
                     ELSE a % 10 = 0 /\ ScaledEq(a \div 10, b, p - 1)
\* x === y as numbers (NaN equals nothing)
NumEq(x, y) ==
    /\ x.k = "num" /\ y.k = "num"
    /\ LET l == x.n * y.d
           r == y.n * x.d
       IN IF y.e >= x.e THEN ScaledEq(r, l, y.e - x.e)
                        ELSE ScaledEq(l, r, x.e - y.e)

Min(a, b) == IF a < b THEN a ELSE b


-----------------------------------------------------------------------------
(* Strings *)

\* an absent string field; '' and undefined are the falsy strings
NoStr == "<undefined>"
StrTruthy(s) == s # "" /\ s # NoStr
StrOr(a, b)  == IF StrTruthy(a) THEN a ELSE b
\* a || b on character sequences: '' (and an absent field, held as <<>>) is falsy
SeqOr(a, b)  == IF a # <<>> THEN a ELSE b

\* String.prototype.toLowerCase on the strings of the model
toLowerCase(s) ==
    CASE s = "Solana"    -> "solana"
      [] s = "Ethereum"  -> "ethereum"
      [] s = "Synthetix" -> "synthetix"
      [] s = "USDC"      -> "usdc"
      [] OTHER           -> s

\* String.prototype.toUpperCase on the strings of the model
toUpperCase(s) ==
    CASE s = "usdc"     -> "USDC"
      [] s = "epjfwdd5" -> "EPJFWDD5"
      [] s = "bonk"     -> "BONK"
      [] OTHER          -> s

\* s.slice(0, 8) on the strings of the model
slice8(s) ==
    CASE s = "epjfwdd5aufqssqem2q" -> "epjfwdd5"
      [] OTHER                     -> s

\* w.slice(0, m) on a character sequence
slice(w, m) == SubSeq(w, 1, Min(m, Len(w)))

-----------------------------------------------------------------------------
(* Indexer adapter, src/unnamed/part_002 *)

\* the value tx.native_decimals || 9 falls back to
DefaultNativeDecimals == 9
\* fees are divided by 1e9
FeeDecimals == 9

chainToNativeAsset_002(chain) ==
    LET c == toLowerCase(chain)
    IN CASE c = "solana"   -> "SOL"
         [] c = "ethereum" -> "ETH"
         [] c = "base"     -> "ETH"
         [] c = "arbitrum" -> "ETH"
         [] c = "polygon"  -> "MATIC"
         [] c = "optimism" -> "ETH"
         [] c = "avax"     -> "AVAX"
         [] OTHER          -> "UNKNOWN"

extractAsset_002(t) ==
    LET tokenAddress == StrOr(StrOr(t.token_address, t.mint), t.token_mint)
        symbol       == StrOr(t.token_symbol, t.symbol)
    IN IF StrTruthy(tokenAddress) THEN toUpperCase(slice8(tokenAddress))
       ELSE IF StrTruthy(symbol) THEN toUpperCase(symbol)
       ELSE chainToNativeAsset_002(StrOr(t.chain, "unknown"))

determineSide_002(t) ==
    LET nativeChange == OrElse(OrElse(t.native_change, t.native_transfer_amount), Num(0))
        tokenChange  == OrElse(OrElse(t.token_change_amount, t.quantity), Num(0))
    IN IF Gt0(nativeChange) /\ Lt0(tokenChange) THEN "BUY"
       ELSE IF Lt0(nativeChange) /\ Gt0(tokenChange) THEN "SELL"
       ELSE IF Lt0(nativeChange) /\ IsZero(tokenChange) THEN "TRANSFER_OUT"
       ELSE IF Gt0(nativeChange) /\ IsZero(tokenChange) THEN "TRANSFER_IN"
       ELSE IF ~IsZero(tokenChange) THEN (IF Gt0(tokenChange) THEN "BUY" ELSE "SELL")
       ELSE "TRANSFER"

calculatePrice_002(t) ==
    LET nativeTotal == MathAbs(OrElse(OrElse(t.native_transfer_amount, t.native_change), Num(0)))
        tokenAmount == MathAbs(OrElse(OrElse(t.token_change_amount, t.quantity), Num(0)))
    IN IF Gt0(tokenAmount)
       THEN LET nativeDecimals == OrElse(t.native_decimals, Num(DefaultNativeDecimals))
                nativeInEth    == DivPow10(nativeTotal, nativeDecimals.n)
            IN DivInt(nativeInEth, tokenAmount.n)
       ELSE Num(0)

\* new Date(v).toISOString() throws a RangeError on an invalid Date
DateThrows(v) == ~IsNum(v)

\* one element of results.map(...) in transformAlliumData
alliumRecord_002(t, chain) ==
    [ timestamp |-> OrElse(t.block_timestamp, t.timestamp).n,
      asset     |-> extractAsset_002(t),
      side      |-> determineSide_002(t),
      quantity  |-> MathAbs(OrElse(OrElse(t.token_change_amount, t.quantity), Num(0))),
      price     |-> calculatePrice_002(t),
      total     |-> MathAbs(OrElse(OrElse(t.native_transfer_amount, t.total_value), Num(0))),
      fees      |-> DivPow10(OrElse(t.fee, Num(0)), FeeDecimals),
      hash      |-> SeqOr(SeqOr(t.tx_hash, t.signature), <<>>),
      chain     |-> chain ]

\* data is the parsed JSON body: isArray says whether it is an array, and
\* resultIsArray whether data[0]?.result || [] is one
transformAlliumData_002(data, chain) ==
    IF ~data.isArray THEN [throws |-> FALSE, txs |-> <<>>]
    ELSE IF ~data.resultIsArray THEN [throws |-> FALSE, txs |-> <<>>]
    ELSE IF \E i \in 1..Len(data.result) :
                DateThrows(OrElse(data.result[i].block_timestamp, data.result[i].timestamp))
         THEN [throws |-> TRUE, txs |-> <<>>]
    ELSE LET mapped == [i \in 1..Len(data.result) |-> alliumRecord_002(data.result[i], chain)]
             Keep(r) == r.asset # "UNKNOWN" /\ r.hash # <<>>
         IN [throws |-> FALSE, txs |-> SelectSeq(mapped, Keep)]

-----------------------------------------------------------------------------
(* Indexer adapter, src/unnamed/part_001 *)

chainToNativeAsset_001(chain) ==
    LET c == toLowerCase(chain)
    IN CASE c = "solana"    -> "SOL"
         [] c = "ethereum"  -> "ETH"
         [] c = "base"      -> "ETH"
         [] c = "arbitrum"  -> "ETH"
         [] c = "polygon"   -> "MATIC"
         [] c = "optimism"  -> "ETH"
         [] c = "bittensor" -> "TAO"
         [] c = "polkadot"  -> "DOT"
         [] c = "osmosis"   -> "OSMO"
         [] c = "ronin"     -> "RON"
         [] OTHER           -> "UNKNOWN"

determineSide_001(t) ==
    LET nativeChange == OrElse(t.native_change, Num(0))
        tokenChange  == OrElse(t.token_change_amount, Num(0))
    IN IF Gt0(nativeChange) /\ Lt0(tokenChange) THEN "BUY"
       ELSE IF Lt0(nativeChange) /\ Gt0(tokenChange) THEN "SELL"
       ELSE IF Gt0(tokenChange) THEN "BUY" ELSE "SELL"

calculatePrice_001(t) ==
    LET nativeTotal == MathAbs(OrElse(t.native_transfer_amount, Num(0)))
        tokenAmount == MathAbs(OrElse(t.token_change_amount, Num(0)))
    IN IF Gt0(tokenAmount)
       THEN LET nativeDecimals == OrElse(t.native_decimals, Num(DefaultNativeDecimals))
            IN DivInt(DivPow10(nativeTotal, nativeDecimals.n), tokenAmount.n)
       ELSE Num(0)

alliumRecord_001(t, chain) ==
    [ timestamp |-> OrElse(t.block_timestamp, t.timestamp).n,
      asset     |-> StrOr(t.token_symbol, chainToNativeAsset_001(chain)),
      side      |-> determineSide_001(t),
      quantity  |-> MathAbs(OrElse(OrElse(t.token_change_amount, t.quantity), Num(0))),
      price     |-> calculatePrice_001(t),
      total     |-> MathAbs(OrElse(t.native_transfer_amount, Num(0))),
      fees      |-> DivPow10(OrElse(t.fee, Num(0)), FeeDecimals),
      hash      |-> SeqOr(SeqOr(t.tx_hash, t.signature), <<>>),
      chain     |-> chain ]

transformAlliumData_001(data, chain) ==
    IF ~data.isArray THEN [throws |-> FALSE, txs |-> <<>>]
    ELSE IF ~data.resultIsArray THEN [throws |-> FALSE, txs |-> <<>>]
    ELSE IF \E i \in 1..Len(data.result) :
                DateThrows(OrElse(data.result[i].block_timestamp, data.result[i].timestamp))
         THEN [throws |-> TRUE, txs |-> <<>>]
    ELSE LET mapped == [i \in 1..Len(data.result) |-> alliumRecord_001(data.result[i], chain)]
             Keep(r) == r.asset # "UNKNOWN" /\ r.hash # <<>>
         IN [throws |-> FALSE, txs |-> SelectSeq(mapped, Keep)]

-----------------------------------------------------------------------------
(* The raw indexer events the model draws from *)

Deltas == {Undefined} \cup {Num(i) : i \in -MaxDelta..MaxDelta}

\* every field the adapters read, over small domains
AlliumEvents ==
    [ block_timestamp        : {Undefined, Num(1)},
      timestamp              : {Undefined},
      token_address          : {NoStr},
      mint                   : {NoStr, "epjfwdd5aufqssqem2q"},
      token_mint             : {NoStr},
      token_symbol           : {NoStr, "usdc"},
      symbol                 : {NoStr},
      chain                  : {NoStr, "solana"},
      native_change          : Deltas,
      native_transfer_amount : Deltas,
      token_change_amount    : Deltas,
      quantity               : {Undefined, Num(1)},
      total_value            : {Undefined, Num(1)},
      native_decimals        : {Undefined, Num(1)},
      fee                    : {Undefined},
      tx_hash                : {<<>>, <<"h", "1">>},
      signature              : {<<>>} ]

NoTx == [ block_timestamp |-> Undefined, timestamp |-> Undefined,
          token_address |-> NoStr, mint |-> NoStr, token_mint |-> NoStr,
          token_symbol |-> NoStr, symbol |-> NoStr, chain |-> NoStr,
          native_change |-> Undefined, native_transfer_amount |-> Undefined,
          token_change_amount |-> Undefined, quantity |-> Undefined,
          total_value |-> Undefined, native_decimals |-> Undefined,
          fee |-> Undefined, tx_hash |-> <<>>, signature |-> <<>> ]

NoTxOut == [ done |-> FALSE, side_001 |-> "", side_002 |-> "",
             out_001 |-> [throws |-> FALSE, txs |-> <<>>],
             out_002 |-> [throws |-> FALSE, txs |-> <<>>] ]

\* the rules applied to the event: both determineSide, and both
\* transformAlliumData on the answer [{ result: [tx] }]
Classify ==
    /\ ~txOut.done
    /\ txOut' = [ done     |-> TRUE,
                  side_001 |-> determineSide_001(tx),
                  side_002 |-> determineSide_002(tx),
                  out_001  |-> transformAlliumData_001(
                                  [isArray |-> TRUE, resultIsArray |-> TRUE, result |-> <<tx>>],
                                  "solana"),
                  out_002  |-> transformAlliumData_002(
                                  [isArray |-> TRUE, resultIsArray |-> TRUE, result |-> <<tx>>],
                                  "solana") ]
    /\ UNCHANGED <<tx, serverVars, pageVars, clientVars, rateVars>>


-----------------------------------------------------------------------------
(* Shared shapes of the route model *)

\* Date.now(), in days
Now == 100

\* parseFloat / parseInt of an upstream field: a number, or NaN
parseFloat(x) == IF IsNum(x) THEN x ELSE NaN

RECURSIVE sortByTimestampDesc(_)
\* xs.sort((a, b) => new Date(b.timestamp) - new Date(a.timestamp)): the
\* stable sort, most recent first
sortByTimestampDesc(xs) ==
    IF Len(xs) <= 1 THEN xs
    ELSE LET front == sortByTimestampDesc(SubSeq(xs, 1, Len(xs) - 1))
             x     == xs[Len(xs)]
             After == {i \in 1..Len(front) : front[i].timestamp >= x.timestamp}
             k     == IF After = {} THEN 0
                      ELSE CHOOSE i \in After : \A j \in After : j <= i
         IN SubSeq(front, 1, k) \o <<x>> \o SubSeq(front, k + 1, Len(front))

\* the result of an adapter call.  awaits names the upstream call a
\* suspended adapter is waiting on ("" once it has settled); throws says the
\* returned promise rejected, with msg the Error's message
\* gen names the generator call whose output the adapter returns (its
\* Math.random() draws are made when the generator runs); fn = "" if none
NoGen == [fn |-> "", wallet |-> <<>>, chain |-> "", type |-> ""]
Settled(txs, inv, lg, org) ==
    [awaits |-> "", throws |-> FALSE, msg |-> "", txs |-> txs, gen |-> NoGen,
     invoked |-> inv, log |-> lg, origin |-> org]
Generated(fn, wallet, chain, type, inv, lg) ==
    [awaits |-> "", throws |-> FALSE, msg |-> "", txs |-> <<>>,
     gen |-> [fn |-> fn, wallet |-> wallet, chain |-> chain, type |-> type],
     invoked |-> inv, log |-> lg, origin |-> "synthetic"]
Thrown(msg, inv, lg) ==
    [awaits |-> "", throws |-> TRUE, msg |-> msg, txs |-> <<>>, gen |-> NoGen,
     invoked |-> inv, log |-> lg, origin |-> "none"]
Awaiting(name, inv, lg) ==
    [awaits |-> name, throws |-> FALSE, msg |-> "", txs |-> <<>>, gen |-> NoGen,
     invoked |-> inv, log |-> lg, origin |-> "none"]

\* the upstream has not answered yet
Pending == [kind |-> "pending"]
\* response.ok
Ok(status) == status >= 200 /\ status <= 299

\* the loop indices of a generator that the model follows: every strictly
\* increasing choice of at most MaxMock of the indices in idx
IncreasingDraws(D, idx) ==
    {ds \in UNION {[1..m -> D] : m \in 0..MaxMock} :
        /\ \A j \in 1..Len(ds) : ds[j].i \in idx
        /\ \A j \in 1..(Len(ds) - 1) : ds[j].i < ds[j + 1].i}

\* the indices followed in every generator loop
FollowedIdx == {1, 2, 5}

-----------------------------------------------------------------------------
(* src/app/api/transactions/route.ts *)

RPC_ENDPOINTS == {"solana", "ethereum", "base", "arbitrum", "polygon",
                  "bittensor", "polkadot"}

PERP_EXCHANGES(exchange) ==
    CASE exchange = "hyperliquid" -> [name |-> "Hyperliquid", chain |-> "ethereum"]
      [] exchange = "perpetual"   -> [name |-> "Perpetual Protocol", chain |-> "arbitrum"]
      [] exchange = "gmx"         -> [name |-> "GMX", chain |-> "arbitrum"]
      [] exchange = "Synthetix"   -> [name |-> "Synthetix Perps", chain |-> "optimism"]
      [] OTHER                    -> [name |-> NoStr, chain |-> NoStr]

CHAIN_NATIVE_ASSET(chain) ==
    CASE chain = "solana"    -> "SOL"
      [] chain = "ethereum"  -> "ETH"
      [] chain = "base"      -> "ETH"
      [] chain = "arbitrum"  -> "ETH"
      [] chain = "polygon"   -> "MATIC"
      [] chain = "optimism"  -> "ETH"
      [] chain = "bittensor" -> "TAO"
      [] chain = "polkadot"  -> "DOT"
      [] OTHER               -> NoStr

SUPPORTED_PERP_PAIRS(exchangeId) ==
    CASE exchangeId = "hyperliquid" -> <<"BTC", "ETH", "SOL", "ADA", "XRP", "DOGE", "LTC",
                                         "LINK", "AVAX", "MATIC", "ARB", "INJ", "BNB", "MKR", "SNX">>
      [] exchangeId = "perpetual"   -> <<"BTC", "ETH", "SOL", "LINK", "ARB", "INJ">>
      [] exchangeId = "gmx"         -> <<"BTC", "ETH", "SOL", "LINK", "AVAX", "UNI">>
      [] exchangeId = "Synthetix"   -> <<"BTC", "ETH", "SOL", "LINK", "ARB", "SNX", "INJ">>
      [] OTHER                      -> <<"BTC", "ETH">>

\* loop bounds and limits of route.ts
MockPerpCount     == 10   \* fetchMockPerpTransactions: for i < 10
MockPerpClosed    == 5    \* ... i < 5 ? closed : open
MockPerpDaysApart == 3    \* ... Date.now() - i * 86400000 * 3
GenPerpCount      == 12   \* generateMockTransactions, perp: for i < 12
GenPerpOpenDays   == 3    \* ... i * 86400000 * (closed ? 1 : 3)
GenSpotCount      == 15   \* generateMockTransactions, spot: for i < 15
GenSpotDaysApart  == 2    \* ... Date.now() - i * 86400000 * 2
SolanaTxLimit     == 10   \* signatures.slice(0, 10)
EvmLogLimit       == 20   \* logs.slice(0, 20)
SolPlaceholderPrice == 100  \* price: 100
LamportDecimals   == 9    \* / 1e9
WeiDecimals       == 18   \* / 1e18
HashPrefixMock    == 8    \* wallet.slice(0, 8)
HashPrefixHyper   == 16   \* wallet.slice(0, 16)

\* the Math.random() draws of one iteration of a perp generator loop
PerpDraws ==
    [ i        : FollowedIdx,
      long     : BOOLEAN,                 \* Math.random() > 0.5
      asset    : {1},                     \* Math.floor(Math.random() * assets.length) + 1
      quantity : 0..MaxQty,               \* Math.random() * 2
      exch     : {1},                     \* Math.floor(Math.random() * perpExchanges.length) + 1
      gain     : {1},                     \* sign of Math.random() - 0.4
      closed   : BOOLEAN,                 \* Math.random() > 0.4 (generateMockTransactions)
      liq      : BOOLEAN,                 \* Math.random() < 0.05, < 0.03
      sfx      : {"a"} ]                  \* Math.random().toString(36).substring(..)

\* the Math.random() draws of one iteration of a spot generator loop
SpotDraws ==
    [ i        : FollowedIdx,
      buy      : BOOLEAN,                 \* Math.random() > 0.5
      asset    : {1},                     \* Math.floor(Math.random() * chainAssets.length) + 1
      quantity : 0..MaxQty,               \* Math.random() * 5
      price    : {10},                    \* Math.random() * 100 + 10
      spread   : {0, 2},                  \* Math.random() * 30 (part_002)
      sfx      : {"a"} ]

fetchMockPerpTransactions_pnlAlways(wallet, exchangeConfig, exchangeId, draws) ==
    LET assets == SUPPORTED_PERP_PAIRS(exchangeId)
        Rec(d) ==
            LET side       == IF d.long THEN "LONG" ELSE "SHORT"
                quantity   == Num(d.quantity)
                entryPrice == Num(50000)
                pnl        == Mul(Num(d.gain), quantity)
            IN [ timestamp     |-> Now - d.i * MockPerpDaysApart,
                 asset         |-> assets[d.asset],
                 side          |-> side,
                 quantity      |-> quantity,
                 position_size |-> IF side = "LONG" THEN quantity ELSE Neg(quantity),
                 entry_price   |-> entryPrice,
                 exit_price    |-> IF d.i < MockPerpClosed THEN entryPrice ELSE Undefined,
                 pnl           |-> pnl,
                 fees          |-> Num(1),
                 funding       |-> Num(1),
                 exchange      |-> exchangeConfig.name,
                 hash          |-> slice(wallet, HashPrefixMock) \o <<"-", "p", "e", "r", "p", "-">> \o <<d.sfx>>,
                 chain         |-> exchangeConfig.chain,
                 leverage      |-> Num(1),
                 liquidation   |-> IF d.liq THEN "true" ELSE "false" ]
    IN [j \in 1..Len(draws) |-> Rec(draws[j])]
fetchMockPerpTransactions(wallet, exchangeConfig, exchangeId, draws) ==
    LET assets == SUPPORTED_PERP_PAIRS(exchangeId)
        Rec(d) ==
            LET side       == IF d.long THEN "LONG" ELSE "SHORT"
                quantity   == Num(d.quantity)
                entryPrice == Num(50000)
                pnl        == Mul(Num(d.gain), quantity)
            IN [ timestamp     |-> Now - d.i * MockPerpDaysApart,
                 asset         |-> assets[d.asset],
                 side          |-> side,
                 quantity      |-> quantity,
                 position_size |-> IF side = "LONG" THEN quantity ELSE Neg(quantity),
                 entry_price   |-> entryPrice,
                 exit_price    |-> IF d.i < MockPerpClosed THEN entryPrice ELSE Undefined,
                 pnl           |-> IF d.i < MockPerpClosed THEN pnl ELSE Undefined,
                 fees          |-> Num(1),
                 funding       |-> Num(1),
                 exchange      |-> exchangeConfig.name,
                 hash          |-> slice(wallet, HashPrefixMock) \o <<"-", "p", "e", "r", "p", "-">> \o <<d.sfx>>,
                 chain         |-> exchangeConfig.chain,
                 leverage      |-> Num(1),
                 liquidation   |-> IF d.liq THEN "true" ELSE "false" ]
    IN [j \in 1..Len(draws) |-> Rec(draws[j])]

\* exchange.charAt(0).toUpperCase() + exchange.slice(1)
Capitalize(s) ==
    CASE s = "hyperliquid" -> "Hyperliquid"
      [] s = "perpetual"   -> "Perpetual"
      [] s = "gmx"         -> "Gmx"
      [] OTHER             -> s

\* assets[chain.toLowerCase()] || assets.solana of generateMockTransactions
MockSpotAssets(chain) ==
    LET c == toLowerCase(chain)
    IN CASE c = "ethereum"    -> <<"ETH", "USDC", "USDT", "LINK", "UNI">>
         [] c = "base"        -> <<"ETH", "USDC", "cbBTC", "AERO">>
         [] c = "arbitrum"    -> <<"ETH", "USDC", "ARB", "RDNT">>
         [] c = "polygon"     -> <<"MATIC", "USDC", "LINK", "GHST">>
         [] c = "optimism"    -> <<"ETH", "USDC", "OP", "SNX">>
         [] c = "bittensor"   -> <<"TAO", "sTAO", "FIN">>
         [] c = "polkadot"    -> <<"DOT", "USDC", "GLMR">>
         [] c = "osmosis"     -> <<"OSMO", "ATOM", "USDC">>
         [] c = "ronin"       -> <<"RON", "AXS", "SLP">>
         [] c = "hyperliquid" -> <<"HYPE", "USDC">>
         [] OTHER             -> <<"SOL", "USDC", "BONK", "JTO", "PYTH">>

generateMockTransactions(wallet, chain, type, draws) ==
    IF type = "perp"
    THEN LET perpExchanges == <<"hyperliquid", "perpetual", "gmx", "Synthetix">>
             perpAssets    == <<"BTC", "ETH", "SOL", "LINK", "ADA", "XRP", "DOGE", "ARB", "INJ", "AVAX">>
             Rec(d) ==
                LET side       == IF d.long THEN "LONG" ELSE "SHORT"
                    quantity   == Num(d.quantity)
                    entryPrice == Num(95000)
                    pnl        == Mul(Num(d.gain), quantity)
                IN [ timestamp     |-> Now - d.i * (IF d.closed THEN 1 ELSE GenPerpOpenDays),
                     asset         |-> perpAssets[d.asset],
                     side          |-> side,
                     quantity      |-> quantity,
                     position_size |-> IF side = "LONG" THEN quantity ELSE Neg(quantity),
                     entry_price   |-> entryPrice,
                     exit_price    |-> IF d.closed THEN entryPrice ELSE Undefined,
                     pnl           |-> IF d.closed THEN pnl ELSE Undefined,
                     fees          |-> Num(1),
                     funding       |-> Num(1),
                     exchange      |-> Capitalize(perpExchanges[d.exch]),
                     hash          |-> slice(wallet, HashPrefixMock) \o <<"-">> \o <<d.sfx>>,
                     chain         |-> "ethereum",
                     leverage      |-> Num(1),
                     liquidation   |-> IF d.liq THEN "true" ELSE "false" ]
         IN sortByTimestampDesc([j \in 1..Len(draws) |-> Rec(draws[j])])
    ELSE LET chainAssets == MockSpotAssets(chain)
             Rec(d) ==
                [ timestamp |-> Now - d.i * GenSpotDaysApart,
                  asset     |-> chainAssets[d.asset],
                  side      |-> IF d.buy THEN "BUY" ELSE "SELL",
                  quantity  |-> Num(d.quantity),
                  price     |-> Num(d.price),
                  total     |-> Mul(Num(d.quantity), Num(d.price)),
                  fees      |-> Num(1),
                  hash      |-> slice(wallet, HashPrefixMock) \o <<d.sfx>>,
                  chain     |-> chain ]
         IN sortByTimestampDesc([j \in 1..Len(draws) |-> Rec(draws[j])])


\* ---- the exchange adapter
\* o is the upstream's answer: the fetch rejects (kind "throw"), or a
\* response arrives whose body parses as JSON or not; positions and closed
\* are data.data?.user?.assetPositions || [] and ...closedPositions || []
fetchHyperliquidTransactions(wallet, baseUrl, o) ==
    LET me == {"fetchHyperliquidTransactions"}
        \* return fetchMockPerpTransactions(wallet, PERP_EXCHANGES.hyperliquid, 'hyperliquid')
        Fallback == Generated("fetchMockPerpTransactions", wallet, "hyperliquid", "",
                              me \cup {"fetchMockPerpTransactions"},
                              {"Hyperliquid API error:"})
        Open(pos) ==
            [ timestamp     |-> Now,
              asset         |-> pos.asset,
              side          |-> IF Ge0(parseFloat(pos.positionSize)) THEN "LONG" ELSE "SHORT",
              quantity      |-> MathAbs(parseFloat(pos.positionSize)),
              position_size |-> parseFloat(pos.positionSize),
              entry_price   |-> parseFloat(pos.entryPrice),
              exit_price    |-> Undefined,
              pnl           |-> Undefined,
              fees          |-> Num(0),
              funding       |-> Num(0),
              exchange      |-> "Hyperliquid",
              hash          |-> slice(wallet, HashPrefixHyper),
              chain         |-> "ethereum",
              leverage      |-> parseFloat(pos.leverage),
              liquidation   |-> IF Gt0(parseFloat(pos.liquidationPrice)) THEN "true" ELSE "false" ]
        Closed(pos) ==
            [ timestamp     |-> pos.closeTimestamp.n,
              asset         |-> pos.asset,
              side          |-> IF Ge0(parseFloat(pos.size)) THEN "LONG" ELSE "SHORT",
              quantity      |-> MathAbs(parseFloat(pos.size)),
              position_size |-> parseFloat(pos.size),
              entry_price   |-> parseFloat(pos.entryPrice),
              exit_price    |-> parseFloat(pos.exitPrice),
              pnl           |-> parseFloat(pos.pnl),
              fees          |-> parseFloat(pos.fees),
              funding       |-> parseFloat(pos.funding),
              exchange      |-> "Hyperliquid",
              hash          |-> slice(wallet, HashPrefixHyper) \o <<"-">> \o <<ToString(pos.closeTimestamp.n)>>,
              chain         |-> "ethereum",
              leverage      |-> Num(0),
              liquidation   |-> "undefined" ]
    IN IF o.kind = "pending" THEN Awaiting("fetchHyperliquidTransactions", me, {})
       ELSE IF o.kind = "throw" THEN Fallback
       ELSE IF ~o.json THEN Fallback
       ELSE IF \E j \in 1..Len(o.closed) : DateThrows(o.closed[j].closeTimestamp) THEN Fallback
       ELSE Settled([j \in 1..Len(o.positions) |-> Open(o.positions[j])]
                    \o [j \in 1..Len(o.closed) |-> Closed(o.closed[j])],
                    me, {}, "real")

fetchPerpTransactions(wallet, exchange, o) ==
    LET exchangeConfig == PERP_EXCHANGES(exchange)
        me == {"fetchPerpTransactions"}
        Via(r) == [r EXCEPT !.invoked = me \cup r.invoked]
    IN IF exchangeConfig.name = NoStr
       THEN Thrown("Unsupported perp exchange", me, {})
       ELSE IF exchange = "hyperliquid"
       THEN Via(fetchHyperliquidTransactions(wallet, "https://api.hyperliquid.xyz", o))
       ELSE Generated("fetchMockPerpTransactions", wallet, exchange, "",
                      me \cup {"fetchMockPerpTransactions"}, {})

\* ---- the Solana RPC adapter
\* o.signatures is sigData.result?.signatures || []; each carries how its
\* getParsedTransaction call ends: it throws, answers null, or answers tx
fetchSolanaTransactions(wallet, rpcUrl, o) ==
    LET me == {"fetchSolanaTransactions"}
        sigs == IF o.kind = "response" /\ o.json
                THEN SubSeq(o.signatures, 1, Min(SolanaTxLimit, Len(o.signatures)))
                ELSE <<>>
        Pushes(sig) == sig.fetch = "tx" /\ ~IsZero(sig.solChange)
        Rec(sig) ==
            [ timestamp |-> IF Truthy(sig.blockTime) THEN sig.blockTime.n ELSE Now,
              asset     |-> "SOL",
              side      |-> IF Gt0(sig.solChange) THEN "BUY" ELSE "SELL",
              quantity  |-> DivPow10(MathAbs(sig.solChange), LamportDecimals),
              price     |-> Num(SolPlaceholderPrice),
              total     |-> Mul(DivPow10(MathAbs(sig.solChange), LamportDecimals),
                                Num(SolPlaceholderPrice)),
              fees      |-> DivPow10(OrElse(sig.fee, Num(0)), LamportDecimals),
              hash      |-> sig.signature,
              chain     |-> "solana" ]
        pushed == SelectSeq(sigs, Pushes)
        warns  == IF \E j \in 1..Len(sigs) : sigs[j].fetch = "throw"
                  THEN {"Failed to parse tx"} ELSE {}
    IN IF o.kind = "pending" THEN Awaiting("fetchSolanaTransactions", me, {})
       ELSE IF o.kind = "throw" THEN Thrown("fetch failed", me, {})
       ELSE IF ~o.json THEN Thrown("Unexpected token in JSON", me, {})
       ELSE Settled(sortByTimestampDesc([j \in 1..Len(pushed) |-> Rec(pushed[j])]),
                    me, warns, "real")

\* ---- the EVM RPC adapter
\* o.failAt names the batch call that rejects ("" if none); o.logs is
\* logsData.result || []; each log carries how its eth_getBlockByHash ends
fetchEVMTransactions(wallet, chain, rpcUrl, o) ==
    LET me == {"fetchEVMTransactions"}
        logs == IF o.kind = "response" THEN SubSeq(o.logs, 1, Min(EvmLogLimit, Len(o.logs)))
                ELSE <<>>
        Rec(lg) ==
            [ timestamp |-> IF lg.block = "block" THEN lg.blockTimestamp.n ELSE Now,
              asset     |-> StrOr(CHAIN_NATIVE_ASSET(chain), "ETH"),
              side      |-> IF lg.toWallet THEN "SELL" ELSE "BUY",
              quantity  |-> DivPow10(parseFloat(lg.data), WeiDecimals),
              price     |-> Num(0),
              total     |-> Num(0),
              fees      |-> Num(0),
              hash      |-> lg.transactionHash,
              chain     |-> chain ]
    IN IF o.kind = "pending" THEN Awaiting("fetchEVMTransactions", me, {})
       ELSE IF o.kind = "throw" THEN Thrown("fetch failed", me, {})
       ELSE IF ~o.json THEN Thrown("Unexpected token in JSON", me, {})
       ELSE IF \E j \in 1..Len(logs) : logs[j].block = "throw"
            THEN Thrown("fetch failed", me, {})
       ELSE IF \E j \in 1..Len(logs) :
                    logs[j].block = "block" /\ DateThrows(logs[j].blockTimestamp)
            THEN Thrown("Invalid time value", me, {})
       ELSE Settled(sortByTimestampDesc([j \in 1..Len(logs) |-> Rec(logs[j])]),
                    me, {}, "real")

fetchSpotTransactions(wallet, chain, o) ==
    LET me == {"fetchSpotTransactions"}
        Via(r) == [r EXCEPT !.invoked = me \cup r.invoked]
    IN IF chain \notin RPC_ENDPOINTS
       THEN Thrown("Unsupported chain", me, {})
       ELSE IF chain = "solana"
       THEN Via(fetchSolanaTransactions(wallet, chain, o))
       ELSE IF chain \in {"ethereum", "base", "arbitrum", "polygon"}
       THEN Via(fetchEVMTransactions(wallet, chain, chain, o))
       ELSE Thrown("Chain not yet implemented for spot trading", me, {})

\* ---- the handler
\* a request is [wallet, chain, mock, type]; wallet is [given, value], the
\* other parameters are NoStr when absent (searchParams.get gives null)
NoResp == [status |-> 0, error |-> "", transactions |-> <<>>, hasType |-> FALSE, type |-> ""]

\* the try/catch of GET around the adapter call r, and the response built
Respond(r, withType, type) ==
    IF r.awaits # ""
    THEN [awaits |-> r.awaits, resp |-> NoResp, gen |-> NoGen,
          invoked |-> r.invoked, log |-> r.log, origin |-> r.origin]
    ELSE IF r.throws
    THEN [awaits |-> "",
          resp |-> [NoResp EXCEPT !.status = 500, !.error = r.msg], gen |-> NoGen,
          invoked |-> r.invoked, log |-> r.log \cup {"Error fetching transactions:"},
          origin |-> "none"]
    ELSE [awaits |-> "",
          resp |-> [status |-> 200, error |-> "", transactions |-> r.txs,
                    hasType |-> withType, type |-> type],
          gen |-> r.gen,
          invoked |-> r.invoked, log |-> r.log, origin |-> r.origin]

BadRequest ==
    [awaits |-> "",
     resp |-> [NoResp EXCEPT !.status = 400, !.error = "Wallet address required"],
     gen |-> NoGen, invoked |-> {}, log |-> {}, origin |-> "none"]

GET_emptyWallet(request, o) ==
    LET wallet  == request.wallet
        chain   == StrOr(request.chain, "solana")
        useMock == request.mock = "true"
        type    == StrOr(request.type, "spot")
    IN IF ~wallet.given THEN BadRequest
       ELSE IF useMock
       THEN Respond(Generated("generateMockTransactions", wallet.value, chain, type,
                              {"generateMockTransactions"}, {}), TRUE, type)
       ELSE IF type = "perp"
       THEN Respond(fetchPerpTransactions(wallet.value, chain, o), TRUE, type)
       ELSE Respond(fetchSpotTransactions(wallet.value, toLowerCase(chain), o), TRUE, type)
GET(request, o) ==
    LET wallet  == request.wallet
        chain   == StrOr(request.chain, "solana")
        useMock == request.mock = "true"
        type    == StrOr(request.type, "spot")
    IN IF ~wallet.given \/ wallet.value = <<>> THEN BadRequest
       ELSE IF useMock
       THEN Respond(Generated("generateMockTransactions", wallet.value, chain, type,
                              {"generateMockTransactions"}, {}), TRUE, type)
       ELSE IF type = "perp"
       THEN Respond(fetchPerpTransactions(wallet.value, chain, o), TRUE, type)
       ELSE Respond(fetchSpotTransactions(wallet.value, toLowerCase(chain), o), TRUE, type)


-----------------------------------------------------------------------------
(* src/unnamed/part_002: the indexer route *)

Gen002Count == 25   \* generateMockTransactions: for i < 25

\* assets[chain] || assets.solana: the key is not lower-cased here
MockSpotAssets_002(chain) ==
    CASE chain = "ethereum" -> <<"ETH", "USDC", "USDT", "LINK", "UNI">>
      [] chain = "base"     -> <<"ETH", "USDC", "cbBTC", "AERO">>
      [] chain = "arbitrum" -> <<"ETH", "USDC", "ARB", "GMX">>
      [] chain = "polygon"  -> <<"MATIC", "USDC", "LINK", "AAVE">>
      [] OTHER              -> <<"SOL", "USDC", "BONK", "JTO", "HNT">>

generateMockTransactions_002(wallet, chain, draws) ==
    LET chainAssets == MockSpotAssets_002(chain)
        Rec(d) ==
            [ timestamp |-> Now - d.i * d.spread,
              asset     |-> chainAssets[d.asset],
              side      |-> IF d.buy THEN "BUY" ELSE "SELL",
              quantity  |-> Num(d.quantity),
              price     |-> Num(d.price),
              total     |-> Mul(Num(d.quantity), Num(d.price)),
              fees      |-> Num(1),
              hash      |-> slice(wallet, HashPrefixMock) \o <<d.sfx>>,
              chain     |-> chain ]
    IN sortByTimestampDesc([j \in 1..Len(draws) |-> Rec(draws[j])])

\* o is the upstream's answer: the fetch rejects, or a response arrives
\* with o.status, whose body parses as JSON (o.json) into o.data
fetchAlliumTransactions_002(wallet, chain, o) ==
    LET me == {"fetchAlliumTransactions"}
        \* return generateMockTransactions(wallet, chain)
        Mock(lg) == Generated("generateMockTransactions_002", wallet, chain, "",
                              me \cup {"generateMockTransactions"}, lg)
        t == transformAlliumData_002(o.data, chain)
    IN IF o.kind = "pending" THEN Awaiting("fetchAlliumTransactions", me, {})
       ELSE IF o.kind = "throw" THEN Mock({"Allium fetch error:"})
       ELSE IF ~Ok(o.status)
       THEN IF o.status = 429 \/ o.status >= 500
            THEN Mock({"Allium API error:", "Allium API error, falling back to mock data"})
            \* the Error thrown here is caught by the function's own catch
            ELSE Mock({"Allium API error:", "Allium fetch error:"})
       ELSE IF ~o.json THEN Mock({"Allium fetch error:"})
       ELSE IF t.throws THEN Mock({"Allium fetch error:"})
       ELSE Settled(t.txs, me, {}, "real")

GET_002(request, o, alliumKey) ==
    LET wallet  == request.wallet
        chain   == StrOr(request.chain, "solana")
        useMock == request.mock = "true"
    IN IF ~wallet.given \/ wallet.value = <<>> THEN BadRequest
       ELSE IF useMock \/ ~alliumKey
       THEN Respond(Generated("generateMockTransactions_002", wallet.value, chain, "",
                              {"generateMockTransactions"},
                              {"Using mock data (no Allium API key or mock=true)"}),
                    FALSE, "")
       ELSE Respond(fetchAlliumTransactions_002(wallet.value, chain, o), FALSE, "")

-----------------------------------------------------------------------------
(* src/unnamed/part_001: the indexer route with the Alchemy adapter *)

Gen001Count == 20   \* generateMockTransactions: for i < 20

MockSpotAssets_001(chain) ==
    LET c == toLowerCase(chain)
    IN CASE c = "ethereum"  -> <<"ETH", "USDC", "USDT", "LINK", "UNI">>
         [] c = "base"      -> <<"ETH", "USDC", "cbBTC", "AERO">>
         [] c = "arbitrum"  -> <<"ETH", "USDC", "ARB", "GMX">>
         [] c = "polygon"   -> <<"MATIC", "USDC", "LINK", "AAVE">>
         [] c = "bittensor" -> <<"TAO", "WTAO", "sTAO">>
         [] c = "polkadot"  -> <<"DOT", "USDC", "GLMR">>
         [] c = "osmosis"   -> <<"OSMO", "ATOM", "USDC">>
         [] c = "ronin"     -> <<"RON", "AXS", "SLP">>
         [] OTHER           -> <<"SOL", "USDC", "BONK", "JTO", "HNT">>

generateMockTransactions_001(wallet, chain, draws) ==
    LET chainAssets == MockSpotAssets_001(chain)
        Rec(d) ==
            [ timestamp |-> Now - d.i * GenSpotDaysApart,
              asset     |-> chainAssets[d.asset],
              side      |-> IF d.buy THEN "BUY" ELSE "SELL",
              quantity  |-> Num(d.quantity),
              price     |-> Num(d.price),
              total     |-> Mul(Num(d.quantity), Num(d.price)),
              fees      |-> Num(1),
              hash      |-> slice(wallet, HashPrefixMock) \o <<d.sfx>>,
              chain     |-> chain ]
    IN sortByTimestampDesc([j \in 1..Len(draws) |-> Rec(draws[j])])

fetchAlliumTransactions_001(wallet, chain, o, alliumKey) ==
    LET me == {"fetchAlliumTransactions"}
        t  == transformAlliumData_001(o.data, chain)
    IN IF ~alliumKey THEN Thrown("Allium API key not configured", me, {})
       ELSE IF o.kind = "pending" THEN Awaiting("fetchAlliumTransactions", me, {})
       ELSE IF o.kind = "throw" THEN Thrown("fetch failed", me, {})
       ELSE IF ~Ok(o.status)
       THEN IF o.status = 429 \/ o.status >= 500
            THEN Generated("generateMockTransactions_001", wallet, chain, "",
                           me \cup {"generateMockTransactions"}, {"Allium API error:"})
            ELSE Thrown("Allium API error", me, {"Allium API error:"})
       ELSE IF ~o.json THEN Thrown("Unexpected token in JSON", me, {})
       ELSE IF t.throws THEN Thrown("Invalid time value", me, {})
       ELSE Settled(t.txs, me, {}, "real")

\* data.result?.transfers || [] is o.transfers
transformAlchemyData(transfers, wallet) ==
    LET Rec(t) ==
            [ timestamp |-> t.blockTimestamp.n,
              asset     |-> StrOr(t.asset, "ETH"),
              side      |-> IF t.fromWallet THEN "SELL" ELSE "BUY",
              quantity  |-> parseFloat(OrElse(t.value, Num(0))),
              price     |-> Num(0),
              total     |-> parseFloat(OrElse(t.value, Num(0))),
              fees      |-> parseFloat(OrElse(t.gas, Num(0))),
              hash      |-> SeqOr(SeqOr(t.hash, t.txHash), <<>>),
              chain     |-> "ethereum" ]
    IN IF \E j \in 1..Len(transfers) : DateThrows(transfers[j].blockTimestamp)
       THEN [throws |-> TRUE, txs |-> <<>>]
       ELSE [throws |-> FALSE, txs |-> [j \in 1..Len(transfers) |-> Rec(transfers[j])]]

fetchAlchemyTransactions(wallet, apiKey, o) ==
    LET me == {"fetchAlchemyTransactions"}
        t  == transformAlchemyData(o.transfers, wallet)
    IN IF o.kind = "pending" THEN Awaiting("fetchAlchemyTransactions", me, {})
       ELSE IF o.kind = "throw" THEN Thrown("fetch failed", me, {})
       ELSE IF ~Ok(o.status) THEN Thrown("Alchemy API error", me, {})
       ELSE IF ~o.json THEN Thrown("Unexpected token in JSON", me, {})
       ELSE IF t.throws THEN Thrown("Invalid time value", me, {})
       ELSE Settled(t.txs, me, {}, "real")

GET_001(request, o, alliumKey, alchemyKey) ==
    LET wallet  == request.wallet
        chain   == StrOr(request.chain, "solana")
        useMock == request.mock = "true"
    IN IF ~wallet.given \/ wallet.value = <<>> THEN BadRequest
       ELSE IF useMock \/ (~alliumKey /\ ~alchemyKey)
       THEN Respond(Generated("generateMockTransactions_001", wallet.value, chain, "",
                              {"generateMockTransactions"}, {}), FALSE, "")
       ELSE IF toLowerCase(chain) = "ethereum" /\ alchemyKey
       THEN Respond(fetchAlchemyTransactions(wallet.value, alchemyKey, o), FALSE, "")
       ELSE Respond(fetchAlliumTransactions_001(wallet.value, chain, o, alliumKey), FALSE, "")


-----------------------------------------------------------------------------
(* What the upstreams can answer *)

SeqsUpTo(S, m) == UNION {[1..j -> S] : j \in 0..m}

\* the call for one underlying item of the answer failed: the
\* getParsedTransaction of a signature, the eth_getBlockByHash of a log
ItemFailed(o) ==
    /\ o.kind = "response" /\ o.json
    /\ \/ /\ "signatures" \in DOMAIN o
          /\ \E j \in 1..Min(SolanaTxLimit, Len(o.signatures)) : o.signatures[j].fetch = "throw"
       \/ /\ "logs" \in DOMAIN o
          /\ \E j \in 1..Min(EvmLogLimit, Len(o.logs)) : o.logs[j].block = "throw"

NoUpstream == [kind |-> "none", status |-> 0, json |-> FALSE, itemFailed |-> FALSE]
UpClass(o) == [kind |-> o.kind, status |-> o.status, json |-> o.json,
               itemFailed |-> ItemFailed(o)]

\* HTTP statuses an upstream answers with
ErrorStatuses == {400, 429, 500}

NoData == [isArray |-> FALSE, resultIsArray |-> FALSE, result |-> <<>>]

\* indexer events of an answer: the time, whether the hash is there
ServerEvents ==
    {[NoTx EXCEPT !.block_timestamp = ts, !.tx_hash = h,
                  !.token_symbol = "usdc",
                  !.native_transfer_amount = Num(-20), !.token_change_amount = Num(1)] :
        ts \in {Undefined, Num(1), Num(2)}, h \in {<<>>, <<"h", "1">>}}

AlliumAnswers ==
    {[kind |-> "throw", status |-> 0, json |-> FALSE, data |-> NoData]}
    \cup {[kind |-> "response", status |-> st, json |-> FALSE, data |-> NoData] :
            st \in ErrorStatuses \cup {200}}
    \cup {[kind |-> "response", status |-> 200, json |-> TRUE, data |-> NoData]}
    \cup {[kind |-> "response", status |-> 200, json |-> TRUE,
           data |-> [isArray |-> TRUE, resultIsArray |-> FALSE, result |-> <<>>]]}
    \cup {[kind |-> "response", status |-> 200, json |-> TRUE,
           data |-> [isArray |-> TRUE, resultIsArray |-> TRUE, result |-> evs]] :
            evs \in SeqsUpTo(ServerEvents, MaxItems)}

AlchemyTransfers ==
    [ blockTimestamp : {Num(1), Num(2), NaN},
      asset          : {"USDC"},
      fromWallet     : BOOLEAN,
      value          : {Num(1)},
      gas            : {Undefined},
      hash           : {<<"h", "2">>},
      txHash         : {<<>>} ]

AlchemyAnswers ==
    {[kind |-> "throw", status |-> 0, json |-> FALSE, transfers |-> <<>>]}
    \cup {[kind |-> "response", status |-> st, json |-> FALSE, transfers |-> <<>>] :
            st \in ErrorStatuses \cup {200}}
    \cup {[kind |-> "response", status |-> 200, json |-> TRUE, transfers |-> ts] :
            ts \in SeqsUpTo(AlchemyTransfers, MaxItems)}

OpenPositions ==
    [ asset            : {"BTC"},
      positionSize     : {Undefined, Num(-1), Num(0), Num(1)},
      entryPrice       : {Num(1)},
      leverage         : {Num(2)},
      liquidationPrice : {Num(0), Num(5)} ]

ClosedPositions ==
    [ asset          : {"ETH"},
      entryPrice     : {Num(1)},
      exitPrice      : {Num(2), Undefined},
      size           : {Num(-1), Num(1)},
      pnl            : {Num(-1)},
      fees           : {Num(1)},
      funding        : {Num(1)},
      closeTimestamp : {Num(1), Num(2), Undefined} ]

\* the exchange reads no status: an error status with a JSON body is an
\* answer without data.user, hence without positions
HyperliquidAnswers ==
    {[kind |-> "throw", status |-> 0, json |-> FALSE, positions |-> <<>>, closed |-> <<>>]}
    \cup {[kind |-> "response", status |-> st, json |-> j, positions |-> <<>>, closed |-> <<>>] :
            st \in ErrorStatuses, j \in BOOLEAN}
    \cup {[kind |-> "response", status |-> 200, json |-> FALSE, positions |-> <<>>, closed |-> <<>>]}
    \cup {[kind |-> "response", status |-> 200, json |-> TRUE,
           positions |-> pc2[1], closed |-> pc2[2]] :
            pc2 \in {x \in SeqsUpTo(OpenPositions, MaxItems) \X SeqsUpTo(ClosedPositions, MaxItems) :
                        Len(x[1]) + Len(x[2]) <= MaxItems}}

SolanaSignatures ==
    [ signature : {<<"s", "1">>},
      fetch     : {"tx"},
      blockTime : {Num(1), Num(2), Undefined},
      fee       : {Num(5000)},
      solChange : {NaN, Num(-1), Num(0), Num(1)} ]
    \cup
    [ signature : {<<"s", "1">>},
      fetch     : {"throw", "null"},
      blockTime : {Undefined},
      fee       : {Undefined},
      solChange : {NaN} ]

SolanaAnswers ==
    {[kind |-> "throw", status |-> 0, json |-> FALSE, signatures |-> <<>>]}
    \cup {[kind |-> "response", status |-> st, json |-> j, signatures |-> <<>>] :
            st \in ErrorStatuses, j \in BOOLEAN}
    \cup {[kind |-> "response", status |-> 200, json |-> FALSE, signatures |-> <<>>]}
    \cup {[kind |-> "response", status |-> 200, json |-> TRUE, signatures |-> ss] :
            ss \in SeqsUpTo(SolanaSignatures, MaxItems)}

EvmLogs ==
    [ block           : {"block"},
      blockTimestamp  : {Num(1), Num(2), NaN},
      toWallet        : BOOLEAN,
      data            : {Num(1)},
      transactionHash : {<<"h", "3">>} ]
    \cup
    [ block           : {"throw", "null"},
      blockTimestamp  : {NaN},
      toWallet        : {FALSE},
      data            : {Num(1)},
      transactionHash : {<<"h", "3">>} ]

EvmAnswers ==
    {[kind |-> "throw", status |-> 0, json |-> FALSE, logs |-> <<>>]}
    \cup {[kind |-> "response", status |-> st, json |-> j, logs |-> <<>>] :
            st \in ErrorStatuses, j \in BOOLEAN}
    \cup {[kind |-> "response", status |-> 200, json |-> FALSE, logs |-> <<>>]}
    \cup {[kind |-> "response", status |-> 200, json |-> TRUE, logs |-> ls] :
            ls \in SeqsUpTo(EvmLogs, MaxItems)}

\* the draws of the generators, per loop: a generator that does not read a
\* draw gets one value of it
Below(m) == {i \in FollowedIdx : i < m}
MockPerpDrawSeqs == IncreasingDraws({d \in PerpDraws : ~d.closed}, Below(MockPerpCount))
GenPerpDrawSeqs  == IncreasingDraws(PerpDraws, Below(GenPerpCount))
GenSpotDrawSeqs  == IncreasingDraws({d \in SpotDraws : d.spread = 0}, Below(GenSpotCount))
Gen001DrawSeqs   == IncreasingDraws({d \in SpotDraws : d.spread = 0}, Below(Gen001Count))
Gen002DrawSeqs   == IncreasingDraws(SpotDraws, Below(Gen002Count))

DrawSeqs(call) ==
    CASE call.fn = "fetchMockPerpTransactions" -> MockPerpDrawSeqs
      [] call.fn = "generateMockTransactions" ->
            IF call.type = "perp" THEN GenPerpDrawSeqs ELSE GenSpotDrawSeqs
      [] call.fn = "generateMockTransactions_001" -> Gen001DrawSeqs
      [] call.fn = "generateMockTransactions_002" -> Gen002DrawSeqs

\* the generator call, run with its draws
RunGen(call, draws) ==
    CASE call.fn = "fetchMockPerpTransactions" ->
            fetchMockPerpTransactions(call.wallet, PERP_EXCHANGES(call.chain), call.chain, draws)
      [] call.fn = "generateMockTransactions" ->
            generateMockTransactions(call.wallet, call.chain, call.type, draws)
      [] call.fn = "generateMockTransactions_001" ->
            generateMockTransactions_001(call.wallet, call.chain, draws)
      [] call.fn = "generateMockTransactions_002" ->
            generateMockTransactions_002(call.wallet, call.chain, draws)

-----------------------------------------------------------------------------
(* The requests *)

Variants == {"route", "part_001", "part_002"}

Wallets == {[given |-> FALSE, value |-> <<>>],
            [given |-> TRUE,  value |-> <<>>],
            [given |-> TRUE,  value |-> <<"0", "x", "a", "b">>]}

ChainParams ==
    IF variant = "route"
    THEN {NoStr, "Ethereum", "optimism", "bittensor", "hyperliquid", "gmx", "synthetix"}
    ELSE {NoStr, "Ethereum"}
MockParams == {NoStr, "true"}
TypeParams == IF variant = "route" THEN {NoStr, "spot", "perp"} ELSE {NoStr}

NoReq == [wallet |-> [given |-> FALSE, value |-> <<>>],
          chain |-> NoStr, mock |-> NoStr, type |-> NoStr]

\* the handler of the deployed route
Handler(request, o) ==
    CASE variant = "route"    -> GET(request, o)
      [] variant = "part_001" -> GET_001(request, o, ALLIUM_API_KEY, ALCHEMY_API_KEY)
      [] variant = "part_002" -> GET_002(request, o, ALLIUM_API_KEY)

\* the handler has run to r: it awaits its upstream call, or runs a
\* generator, or has sent its response
Advance(r) ==
    /\ invoked' = r.invoked
    /\ log' = r.log
    /\ origin' = r.origin
    /\ IF r.awaits # ""
       THEN /\ pc' = "awaiting"
            /\ adapter' = r.awaits
            /\ UNCHANGED <<mockCall, building, resp, nresp>>
       ELSE IF r.gen.fn # ""
       THEN /\ pc' = "generating"
            /\ mockCall' = r.gen
            /\ building' = r.resp
            /\ UNCHANGED <<adapter, resp, nresp>>
       ELSE /\ pc' = "done"
            /\ resp' = r.resp
            /\ nresp' = nresp + 1
            /\ UNCHANGED <<adapter, mockCall, building>>

\* Nothing of a request outlives its response (the route keeps no state), so
\* a behaviour follows one request
Request(w, c, m, t) ==
    /\ pc = "idle"
    /\ req' = [wallet |-> w, chain |-> c, mock |-> m, type |-> t]
    /\ Advance(Handler(req', Pending))
    /\ UNCHANGED <<variant, ALLIUM_API_KEY, ALCHEMY_API_KEY, upstream, txVars, rateVars, pageVars,
                   clientVars>>

\* the awaited upstream call ends with o
Finish(o) ==
    /\ pc = "awaiting"
    /\ upstream' = UpClass(o)
    /\ Advance(Handler(req, o))
    /\ UNCHANGED <<variant, ALLIUM_API_KEY, ALCHEMY_API_KEY, req, txVars, rateVars, pageVars,
                   clientVars>>

AnswerAllium ==
    /\ adapter = "fetchAlliumTransactions"
    /\ \E o \in AlliumAnswers : Finish(o)
AnswerAlchemy ==
    /\ adapter = "fetchAlchemyTransactions"
    /\ \E o \in AlchemyAnswers : Finish(o)
AnswerHyperliquid ==
    /\ adapter = "fetchHyperliquidTransactions"
    /\ \E o \in HyperliquidAnswers : Finish(o)
AnswerSolana ==
    /\ adapter = "fetchSolanaTransactions"
    /\ \E o \in SolanaAnswers : Finish(o)
AnswerEVM ==
    /\ adapter = "fetchEVMTransactions"
    /\ \E o \in EvmAnswers : Finish(o)

\* the generator runs its loop and the handler sends the response
Generate ==
    /\ pc = "generating"
    /\ \E draws \in DrawSeqs(mockCall) :
            resp' = [building EXCEPT !.transactions = RunGen(mockCall, draws)]
    /\ nresp' = nresp + 1
    /\ pc' = "done"
    /\ UNCHANGED <<variant, ALLIUM_API_KEY, ALCHEMY_API_KEY, req, adapter, upstream,
                   mockCall, building, invoked, log, origin, txVars, rateVars, clientVars, pageVars>>

GetRequest == \E w \in Wallets, c \in ChainParams, m \in MockParams, t \in TypeParams :
                Request(w, c, m, t)

-----------------------------------------------------------------------------
(* src/app/page.tsx: the filtered view *)

\* the characters of the strings the page searches in
Chars(str) ==
    CASE str = "SOL"  -> <<"S", "O", "L">>
      [] str = "USDC" -> <<"U", "S", "D", "C">>
      [] str = "BUY"  -> <<"B", "U", "Y">>
      [] str = "SELL" -> <<"S", "E", "L", "L">>
      [] OTHER        -> <<>>

toLowerCaseChar(c) ==
    CASE c = "S" -> "s" [] c = "O" -> "o" [] c = "L" -> "l" [] c = "U" -> "u"
      [] c = "D" -> "d" [] c = "C" -> "c" [] c = "B" -> "b" [] c = "Y" -> "y"
      [] c = "E" -> "e" [] c = "X" -> "x"
      [] OTHER   -> c
\* String.prototype.toLowerCase on a character sequence
toLowerCaseChars(w) == [i \in 1..Len(w) |-> toLowerCaseChar(w[i])]

\* String.prototype.includes on character sequences
includes(str, q) ==
    \E k \in 0..(Len(str) - Len(q)) : SubSeq(str, k + 1, k + Len(q)) = q

WeekDays  == 7     \* 7 * 24 * 60 * 60 * 1000 ms
MonthDays == 30    \* 30 * 24 * 60 * 60 * 1000 ms

\* new Date(row.timestamp) >= since: false for an invalid Date
NotBefore_strict(row, since) == IsNum(row.timestamp) /\ row.timestamp.n > since
NotBefore(row, since) == IsNum(row.timestamp) /\ row.timestamp.n >= since

\* the four steps of filteredTransactions
byDate(filtered, df) ==
    IF df = "week" THEN SelectSeq(filtered, LAMBDA row : NotBefore(row, Now - WeekDays))
    ELSE IF df = "month" THEN SelectSeq(filtered, LAMBDA row : NotBefore(row, Now - MonthDays))
    ELSE filtered

byAsset(filtered, af) ==
    IF af # "all" THEN SelectSeq(filtered, LAMBDA row : row.asset = af) ELSE filtered

bySide(filtered, sf) ==
    IF sf # "all" THEN SelectSeq(filtered, LAMBDA row : row.side = sf) ELSE filtered

bySearch_rawQuery(filtered, sq) ==
    IF sq # <<>>
    THEN SelectSeq(filtered, LAMBDA row :
                \/ includes(toLowerCaseChars(Chars(row.asset)), sq)
                \/ includes(toLowerCaseChars(row.hash), sq)
                \/ includes(toLowerCaseChars(Chars(row.side)), sq))
    ELSE filtered
bySearch(filtered, sq) ==
    IF sq # <<>>
    THEN LET query == toLowerCaseChars(sq)
         IN SelectSeq(filtered, LAMBDA row :
                \/ includes(toLowerCaseChars(Chars(row.asset)), query)
                \/ includes(toLowerCaseChars(row.hash), query)
                \/ includes(toLowerCaseChars(Chars(row.side)), query))
    ELSE filtered

filteredTransactions_sideOnAll(txs, df, af, sf, sq) ==
    bySearch(bySide(txs, sf), sq)
filteredTransactions(txs, df, af, sf, sq) ==
    bySearch(bySide(byAsset(byDate(txs, df), af), sf), sq)

\* the records a fetch can bring: recent, older than a week, older than a
\* month, one whose timestamp does not parse, and two that are exactly a week
\* and exactly a month old
Shape ==
    [ timestamp |-> NaN, chain |-> "solana", asset |-> "", side |-> "",
      quantity |-> Num(1), price |-> Num(1), total |-> Num(1), fees |-> Num(0),
      hash |-> <<>> ]
PageRows ==
    { [Shape EXCEPT !.timestamp = Num(Now - 1),  !.asset = "SOL",  !.side = "BUY",
                    !.hash = <<"a", "X">>],
      [Shape EXCEPT !.timestamp = Num(Now - 10), !.asset = "USDC", !.side = "SELL",
                    !.hash = <<"b">>],
      [Shape EXCEPT !.timestamp = Num(Now - 40), !.asset = "SOL",  !.side = "SELL",
                    !.hash = <<"c">>],
      [Shape EXCEPT !.timestamp = NaN,           !.asset = "USDC", !.side = "BUY",
                    !.hash = <<"d", "x">>],
      [Shape EXCEPT !.timestamp = Num(Now - WeekDays),  !.asset = "SOL",  !.side = "BUY",
                    !.hash = <<"e">>],
      [Shape EXCEPT !.timestamp = Num(Now - MonthDays), !.asset = "USDC", !.side = "SELL",
                    !.hash = <<"f">>] }

DateFilters   == {"all", "week", "month"}
SideFilters   == {"all", "BUY", "SELL"}
SearchQueries == {<<>>, <<"s">>, <<"U", "Y">>, <<"x">>}
\* [...new Set(transactions.map(tx => tx.asset))]
uniqueAssets  == {transactions[i].asset : i \in 1..Len(transactions)}

-----------------------------------------------------------------------------
(* src/app/page.tsx: the records as the page holds them, and the summary *)

\* JSON.stringify writes NaN as null and leaves an undefined field out;
\* response.json() reads null back as null
Null == [k |-> "null", n |-> 0, d |-> 1, e |-> 0]
fromJSON(x) == IF x.k = "nan" THEN Null ELSE x

\* a perp record of the route as the page receives it; the timestamp is the
\* ISO text of the instant, which new Date() parses back
receivedPerp(r) ==
    [r EXCEPT !.timestamp     = Num(@),
              !.quantity      = fromJSON(@),
              !.position_size = fromJSON(@),
              !.entry_price   = fromJSON(@),
              !.exit_price    = fromJSON(@),
              !.pnl           = fromJSON(@),
              !.fees          = fromJSON(@),
              !.funding       = fromJSON(@),
              !.leverage      = fromJSON(@)]
receivedSpot(r) ==
    [r EXCEPT !.timestamp = Num(@),
              !.quantity  = fromJSON(@),
              !.price     = fromJSON(@),
              !.total     = fromJSON(@),
              !.fees      = fromJSON(@)]

RECURSIVE Pow10(_)
Pow10(p) == IF p = 0 THEN 1 ELSE 10 * Pow10(p - 1)
\* ToNumber of an operand of +: null is 0, undefined is NaN
ToNumber(x) == IF x.k = "null" THEN Num(0) ELSE IF x.k = "undef" THEN NaN ELSE x
\* a + b on numbers
Plus(a, b) ==
    LET x == ToNumber(a)
        y == ToNumber(b)
    IN IF x.k = "num" /\ y.k = "num"
       THEN IF x.n = 0 THEN y
            ELSE IF y.n = 0 THEN x
            ELSE IF x.d = y.d /\ x.e = y.e THEN [x EXCEPT !.n = x.n + y.n]
            ELSE [k |-> "num",
                  n |-> x.n * y.d * Pow10(y.e) + y.n * x.d * Pow10(x.e),
                  d |-> x.d * y.d,
                  e |-> x.e + y.e]
       ELSE NaN

RECURSIVE reduceSum(_)
\* xs.reduce((sum, x) => sum + x, 0)
reduceSum(xs) ==
    IF xs = <<>> THEN Num(0)
    ELSE Plus(reduceSum(SubSeq(xs, 1, Len(xs) - 1)), xs[Len(xs)])

\* the summary memo
summaryMemo_pnlUnguarded(filtered, type) ==
    IF type = "perp"
    THEN [ totalPnl      |-> reduceSum([i \in 1..Len(filtered) |-> filtered[i].pnl]),
           totalFees     |-> reduceSum([i \in 1..Len(filtered) |-> filtered[i].fees]),
           totalFunding  |-> reduceSum([i \in 1..Len(filtered) |-> filtered[i].funding]),
           tradeCount    |-> Len(filtered),
           uniqueAssets  |-> Cardinality({filtered[i].asset : i \in 1..Len(filtered)}),
           openPositions |-> Len(SelectSeq(filtered, LAMBDA row : row.exit_price = Undefined)) ]
    ELSE LET buys  == SelectSeq(filtered, LAMBDA row : row.side = "BUY")
             sells == SelectSeq(filtered, LAMBDA row : row.side = "SELL")
         IN [ totalBuys    |-> reduceSum([i \in 1..Len(buys) |-> buys[i].total]),
              totalSells   |-> reduceSum([i \in 1..Len(sells) |-> sells[i].total]),
              totalFees    |-> reduceSum([i \in 1..Len(filtered) |-> filtered[i].fees]),
              tradeCount   |-> Len(filtered),
              uniqueAssets |-> Cardinality({filtered[i].asset : i \in 1..Len(filtered)}) ]
summaryMemo_allSides(filtered, type) ==
    IF type = "perp"
    THEN [ totalPnl      |-> reduceSum([i \in 1..Len(filtered) |->
                                            OrElse(filtered[i].pnl, Num(0))]),
           totalFees     |-> reduceSum([i \in 1..Len(filtered) |-> filtered[i].fees]),
           totalFunding  |-> reduceSum([i \in 1..Len(filtered) |-> filtered[i].funding]),
           tradeCount    |-> Len(filtered),
           uniqueAssets  |-> Cardinality({filtered[i].asset : i \in 1..Len(filtered)}),
           openPositions |-> Len(SelectSeq(filtered, LAMBDA row : row.exit_price = Undefined)) ]
    ELSE LET buys  == filtered
             sells == SelectSeq(filtered, LAMBDA row : row.side = "SELL")
         IN [ totalBuys    |-> reduceSum([i \in 1..Len(buys) |-> buys[i].total]),
              totalSells   |-> reduceSum([i \in 1..Len(sells) |-> sells[i].total]),
              totalFees    |-> reduceSum([i \in 1..Len(filtered) |-> filtered[i].fees]),
              tradeCount   |-> Len(filtered),
              uniqueAssets |-> Cardinality({filtered[i].asset : i \in 1..Len(filtered)}) ]
summaryMemo(filtered, type) ==
    IF type = "perp"
    THEN [ totalPnl      |-> reduceSum([i \in 1..Len(filtered) |->
                                            OrElse(filtered[i].pnl, Num(0))]),
           totalFees     |-> reduceSum([i \in 1..Len(filtered) |-> filtered[i].fees]),
           totalFunding  |-> reduceSum([i \in 1..Len(filtered) |-> filtered[i].funding]),
           tradeCount    |-> Len(filtered),
           uniqueAssets  |-> Cardinality({filtered[i].asset : i \in 1..Len(filtered)}),
           openPositions |-> Len(SelectSeq(filtered, LAMBDA row : row.exit_price = Undefined)) ]
    ELSE LET buys  == SelectSeq(filtered, LAMBDA row : row.side = "BUY")
             sells == SelectSeq(filtered, LAMBDA row : row.side = "SELL")
         IN [ totalBuys    |-> reduceSum([i \in 1..Len(buys) |-> buys[i].total]),
              totalSells   |-> reduceSum([i \in 1..Len(sells) |-> sells[i].total]),
              totalFees    |-> reduceSum([i \in 1..Len(filtered) |-> filtered[i].fees]),
              tradeCount   |-> Len(filtered),
              uniqueAssets |-> Cardinality({filtered[i].asset : i \in 1..Len(filtered)}) ]

\* x.toFixed(..) throws a TypeError on undefined and on null
NoToFixed(x) == x.k \in {"undef", "null"}
\* the table row of one record throws: the perp table reads quantity,
\* entry_price, fees, funding and (unless undefined) pnl with toFixed; the
\* spot table reads quantity, price, total, fees.  part_005 reads quantity
\* and pnl with ?.
RowThrows(row, type) ==
    LET F(name) == IF name \in DOMAIN row THEN row[name] ELSE Undefined
        guarded == pageVariant = "part_005"
    IN IF type = "perp"
       THEN \/ ~guarded /\ NoToFixed(F("quantity"))
            \/ NoToFixed(F("entry_price"))
            \/ ~guarded /\ F("pnl").k = "null"
            \/ NoToFixed(F("fees")) \/ NoToFixed(F("funding"))
       ELSE \/ ~guarded /\ NoToFixed(F("quantity"))
            \/ NoToFixed(F("price"))
            \/ NoToFixed(F("total")) \/ NoToFixed(F("fees"))

\* the render that follows a state change recomputes the two memos and draws
\* the table of the type selected; a render that throws commits nothing and
\* leaves the error page
RenderAs(txs, type, df, af, sf, sq) ==
    \E filtered \in {filteredTransactions(txs, df, af, sf, sq)} :
        IF \E i \in 1..Len(filtered) : RowThrows(filtered[i], type)
        THEN /\ crashed' = TRUE
             /\ UNCHANGED <<view, summary>>
        ELSE /\ view' = filtered
             /\ summary' = summaryMemo(view', type)
             /\ UNCHANGED crashed
Render(txs, df, af, sf, sq) == RenderAs(txs, transactionType, df, af, sf, sq)

\* fetchTransactions, from the response on: setTransactions(data.transactions || [])
\* or setTransactions([]); the filters stay as they are. The records of one
\* answer are distinct: each adapter emits one record per signature or event.
fetchTransactions ==
    /\ ~crashed
    /\ \E rows \in {r \in SeqsUpTo(PageRows, MaxItems) :
                        \A i, j \in 1..Len(r) : i # j => r[i] # r[j]} :
        /\ transactions' = rows
        /\ fetched' = rows
        /\ Render(rows, dateFilter, assetFilter, sideFilter, searchQuery)
    /\ UNCHANGED <<dateFilter, assetFilter, sideFilter, searchQuery, serverVars, txVars, rateVars,
                   formVars, download>>

setDateFilter ==
    /\ ~crashed
    /\ \E df \in DateFilters :
        /\ dateFilter' = df
        /\ Render(transactions, df, assetFilter, sideFilter, searchQuery)
    /\ UNCHANGED <<transactions, fetched, assetFilter, sideFilter, searchQuery,
                   serverVars, txVars, rateVars, formVars, download>>

setAssetFilter ==
    /\ ~crashed
    /\ \E af \in {"all"} \cup uniqueAssets :
        /\ assetFilter' = af
        /\ Render(transactions, dateFilter, af, sideFilter, searchQuery)
    /\ UNCHANGED <<transactions, fetched, dateFilter, sideFilter, searchQuery,
                   serverVars, txVars, rateVars, formVars, download>>

\* part_005 shows the side select for spot records only
setSideFilter ==
    /\ ~crashed
    /\ pageVariant = "part_005" => transactionType = "spot"
    /\ \E sf \in SideFilters :
        /\ sideFilter' = sf
        /\ Render(transactions, dateFilter, assetFilter, sf, searchQuery)
    /\ UNCHANGED <<transactions, fetched, dateFilter, assetFilter, searchQuery,
                   serverVars, txVars, rateVars, formVars, download>>

setSearchQuery ==
    /\ ~crashed
    /\ \E sq \in SearchQueries :
        /\ searchQuery' = sq
        /\ Render(transactions, dateFilter, assetFilter, sideFilter, sq)
    /\ UNCHANGED <<transactions, fetched, dateFilter, assetFilter, sideFilter,
                   serverVars, txVars, rateVars, formVars, download>>

-----------------------------------------------------------------------------
(* src/app/page.tsx and its variants: the typed fetch and the CSV export *)

\* the page files: src/app/page.tsx, the spot-only part_004, and part_005
PageVariants == {"page", "part_004", "part_005"}
TypesOf(pv)  == IF pv = "part_004" THEN {"spot"} ELSE {"spot", "perp"}

\* a text is a sequence of pieces: the separators "," and "\n" are pieces of
\* their own, any other piece is a run of characters holding neither
Comma   == ","
Newline == "\n"
Text(str) ==
    CASE str = "A,B" -> <<"A", Comma, "B">>
      [] str = ""    -> <<>>
      [] OTHER       -> <<str>>

\* the ISO text of an instant, as toISOString wrote it on the server
IsoText(ts) == IF IsNum(ts) THEN <<"T", ToString(ts.n)>> ELSE <<"Invalid Date">>

\* x.toString() throws a TypeError on null and undefined
ToStringThrows(x) == x.k \in {"null", "undef"}
\* Number.prototype.toString, on the values the model exports: 0 and the
\* whole numbers
NumberToString(x) ==
    CASE x.k = "nan"                        -> <<"NaN">>
      [] x.k = "num" /\ x.n = 0             -> <<"0">>
      [] x.k = "num" /\ x.d = 1 /\ x.e = 0  -> <<ToString(x.n)>>
\* x?.toString() || ''
OptionalToString(x) ==
    IF x.k \in {"null", "undef"} THEN <<>> ELSE SeqOr(NumberToString(x), <<>>)

RECURSIVE join(_, _)
\* Array.prototype.join
join(parts, sep) ==
    IF parts = <<>> THEN <<>>
    ELSE IF Len(parts) = 1 THEN parts[1]
    ELSE parts[1] \o <<sep>> \o join(Tail(parts), sep)

RECURSIVE split(_, _)
\* String.prototype.split on a separator
split(text, sep) ==
    LET at == {i \in 1..Len(text) : text[i] = sep}
    IN IF at = {} THEN <<text>>
       ELSE LET i == CHOOSE j \in at : \A k \in at : j <= k
            IN <<SubSeq(text, 1, i - 1)>> \o split(SubSeq(text, i + 1, Len(text)), sep)

perpHeaders == <<"timestamp", "asset", "side", "quantity", "entry_price", "exit_price",
                 "pnl", "fees", "funding", "exchange", "leverage", "liquidation",
                 "chain", "hash">>
spotHeaders == <<"timestamp", "chain", "asset", "side", "quantity", "price", "total",
                 "fees", "hash">>

\* one element of perps.map(...) and of spots.map(...)
perpRow(row) ==
    << IsoText(row.timestamp), Text(row.asset), Text(row.side),
       NumberToString(row.quantity), NumberToString(row.entry_price),
       OptionalToString(row.exit_price), OptionalToString(row.pnl),
       NumberToString(row.fees), NumberToString(row.funding),
       Text(row.exchange), NumberToString(row.leverage),
       IF row.liquidation = "true" THEN <<"YES">> ELSE <<"NO">>,
       Text(row.chain), row.hash >>
perpRowThrows(row) ==
    \E x \in {row.quantity, row.entry_price, row.fees, row.funding, row.leverage} :
        ToStringThrows(x)
spotRow(row) ==
    << IsoText(row.timestamp), Text(row.chain), Text(row.asset), Text(row.side),
       NumberToString(row.quantity), NumberToString(row.price),
       NumberToString(row.total), NumberToString(row.fees), row.hash >>
spotRowThrows(row) ==
    \E x \in {row.quantity, row.price, row.total, row.fees} : ToStringThrows(x)

FileNamePrefix == 8    \* wallet.slice(0, 8)
downloadName(pv, type, w) ==
    (IF pv = "part_005" THEN <<type, "-export-">>
     ELSE IF type = "perp" THEN <<"perp-tax-export-">>
     ELSE <<"tax-export-">>) \o slice(w, FileNamePrefix) \o <<".csv">>

\* what the browser was handed: asked says the export ran, made that it
\* reached a.click(), of is the filteredTransactions the callback closed over
NoDownload == [asked |-> FALSE, made |-> FALSE, name |-> <<>>, text |-> <<>>,
               of |-> <<>>]
Nothing(filtered) ==
    [asked |-> TRUE, made |-> FALSE, name |-> <<>>, text |-> <<>>, of |-> filtered]
Download(name, text, filtered) ==
    [asked |-> TRUE, made |-> TRUE, name |-> name, text |-> text, of |-> filtered]

\* [headers.join(','), ...rows.map(r => r.join(','))].join('\n')
csvText(headers, rows) ==
    join(<<join([i \in 1..Len(headers) |-> <<headers[i]>>], Comma)>>
         \o [i \in 1..Len(rows) |-> join(rows[i], Comma)], Newline)

exportToCSV_reversed(pv, filtered, type, w) ==
    LET n == Len(filtered)
    IN IF n = 0 THEN Nothing(filtered)
       ELSE IF type = "perp"
       THEN IF \E i \in 1..n : perpRowThrows(filtered[i]) THEN Nothing(filtered)
            ELSE Download(downloadName(pv, type, w),
                          csvText(perpHeaders, [i \in 1..n |-> perpRow(filtered[n + 1 - i])]),
                          filtered)
       ELSE IF \E i \in 1..n : spotRowThrows(filtered[i]) THEN Nothing(filtered)
            ELSE Download(downloadName(pv, type, w),
                          csvText(spotHeaders, [i \in 1..n |-> spotRow(filtered[n + 1 - i])]),
                          filtered)
exportToCSV(pv, filtered, type, w) ==
    LET n == Len(filtered)
    IN IF n = 0 THEN Nothing(filtered)
       ELSE IF type = "perp"
       THEN IF \E i \in 1..n : perpRowThrows(filtered[i]) THEN Nothing(filtered)
            ELSE Download(downloadName(pv, type, w),
                          csvText(perpHeaders, [i \in 1..n |-> perpRow(filtered[i])]),
                          filtered)
       ELSE IF \E i \in 1..n : spotRowThrows(filtered[i]) THEN Nothing(filtered)
            ELSE Download(downloadName(pv, type, w),
                          csvText(spotHeaders, [i \in 1..n |-> spotRow(filtered[i])]),
                          filtered)

\* the address the records were fetched for
ExportWallet == <<"0", "x", "a", "b">>

\* positions the exchange can answer with: a plain one, one whose asset
\* holds a comma, one without leverage
ExportOpenPositions ==
    { [asset |-> "BTC", positionSize |-> Num(1), entryPrice |-> Num(1),
       leverage |-> Num(2), liquidationPrice |-> Num(5)],
      [asset |-> "A,B", positionSize |-> Num(-1), entryPrice |-> Num(1),
       leverage |-> Num(2), liquidationPrice |-> Num(0)],
      [asset |-> "BTC", positionSize |-> Num(1), entryPrice |-> Num(1),
       leverage |-> Undefined, liquidationPrice |-> Num(0)] }
\* closed positions: a plain one, one closed at price 0 with pnl 0, one
\* without exitPrice
ExportClosedPositions ==
    { [asset |-> "ETH", entryPrice |-> Num(1), exitPrice |-> Num(2), size |-> Num(1),
       pnl |-> Num(-1), fees |-> Num(1), funding |-> Num(1), closeTimestamp |-> Num(1)],
      [asset |-> "ETH", entryPrice |-> Num(1), exitPrice |-> Num(0), size |-> Num(-1),
       pnl |-> Num(0), fees |-> Num(1), funding |-> Num(1), closeTimestamp |-> Num(2)],
      [asset |-> "BTC", entryPrice |-> Num(1), exitPrice |-> Undefined, size |-> Num(1),
       pnl |-> Num(-1), fees |-> Num(1), funding |-> Num(1), closeTimestamp |-> Num(2)] }
\* indexer events: a buy, a sell of the native asset, a transfer, and a buy
\* of a token whose symbol holds a comma
ExportEvents ==
    { [NoTx EXCEPT !.block_timestamp = Num(3), !.token_symbol = "usdc",
                   !.token_change_amount = Num(1), !.total_value = Num(2),
                   !.tx_hash = <<"h", "1">>],
      [NoTx EXCEPT !.block_timestamp = Num(2), !.chain = "solana",
                   !.token_change_amount = Num(-1), !.total_value = Num(1),
                   !.tx_hash = <<"h", "2">>],
      [NoTx EXCEPT !.block_timestamp = Num(1), !.token_symbol = "usdc",
                   !.total_value = Num(1), !.tx_hash = <<"h", "3">>],
      [NoTx EXCEPT !.block_timestamp = Num(2), !.token_symbol = "A,B",
                   !.token_change_amount = Num(1), !.total_value = Num(1),
                   !.tx_hash = <<"h", "4">>] }

\* the records the adapters make of them
HyperliquidRecords ==
    UNION { { fetchHyperliquidTransactions(ExportWallet, "https://api.hyperliquid.xyz",
                [kind |-> "response", status |-> 200, json |-> TRUE,
                 positions |-> ps, closed |-> cs]).txs[1] }
            : <<ps, cs>> \in ({<<p>> : p \in ExportOpenPositions} \X {<<>>})
                             \cup ({<<>>} \X {<<c>> : c \in ExportClosedPositions}) }
AlliumRecords ==
    UNION { { transformAlliumData_002(
                [isArray |-> TRUE, resultIsArray |-> TRUE, result |-> <<ev>>],
                "solana").txs[1] }
            : ev \in ExportEvents }

\* two records of the spot generator: a buy and a sell, each with a fee
MockSpotRecords ==
    { generateMockTransactions(ExportWallet, "solana", "spot",
        <<[i |-> j, buy |-> b, asset |-> 1, quantity |-> 1, price |-> 10,
           spread |-> 0, sfx |-> "a"]>>)[1]
      : <<j, b>> \in {<<1, TRUE>>, <<2, FALSE>>} }

\* data.transactions of a 200 answer, for the type asked: the records of
\* one adapter, sorted by the handler
Received(type) ==
    IF type = "perp"
    THEN { [i \in 1..Len(rs) |-> receivedPerp(sortByTimestampDesc(rs)[i])]
           : rs \in SeqsUpTo(HyperliquidRecords, MaxItems) }
    ELSE { [i \in 1..Len(rs) |-> receivedSpot(sortByTimestampDesc(rs)[i])]
           : rs \in SeqsUpTo(AlliumRecords, MaxItems)
                    \cup SeqsUpTo(MockSpotRecords, MaxItems) }

\* fetchTransactions with the type in the query, from the response on
fetchTransactionsOfType ==
    /\ ~crashed
    /\ ~download.asked
    /\ \E rows \in Received(transactionType) :
        /\ transactions' = rows
        /\ fetched' = rows
        /\ Render(rows, dateFilter, assetFilter, sideFilter, searchQuery)
    /\ UNCHANGED <<dateFilter, assetFilter, sideFilter, searchQuery, serverVars, txVars, rateVars,
                   formVars, download>>

\* a click on Export CSV, which is shown while records are held
clickExport ==
    /\ ~crashed
    /\ transactions # <<>>
    /\ ~download.asked
    /\ download' = exportToCSV(pageVariant, view, transactionType, walletInput)
    /\ UNCHANGED <<serverVars, txVars, rateVars, pageVars, formVars, summary, crashed>>

-----------------------------------------------------------------------------
(* src/app/page.tsx and its variants: the search form *)

MaxFetches == 2     \* requests one behaviour makes

Digits19 == {"1", "2", "3", "4", "5", "6", "7", "8", "9"}
Upper == {"A", "B", "C", "D", "E", "F", "G", "H", "I", "J", "K", "L", "M", "N", "O",
          "P", "Q", "R", "S", "T", "U", "V", "W", "X", "Y", "Z"}
Lower == {"a", "b", "c", "d", "e", "f", "g", "h", "i", "j", "k", "l", "m", "n", "o",
          "p", "q", "r", "s", "t", "u", "v", "w", "x", "y", "z"}
\* [1-9A-HJ-NP-Za-km-z], [a-fA-F0-9], [a-zA-Z0-9], [a-zA-HJ-NP-Z1-9]
Base58   == Digits19 \cup (Upper \ {"I", "O"}) \cup (Lower \ {"l"})
HexDigit == {"a", "b", "c", "d", "e", "f", "A", "B", "C", "D", "E", "F", "0"} \cup Digits19
Alnum    == Lower \cup Upper \cup {"0"} \cup Digits19
DotChar  == Lower \cup (Upper \ {"I", "O"}) \cup Digits19

\* /^...$/.test(addr): all of w from position from on is in the class
AllIn(w, from, class) == \A i \in from..Len(w) : w[i] \in class
\* !addr.trim(): nothing but white space
IsBlank(w) == \A i \in 1..Len(w) : w[i] = " "

validateWallet(addr, chainId) ==
    CASE chainId = "solana"    -> Len(addr) >= 32 /\ Len(addr) <= 44 /\ AllIn(addr, 1, Base58)
      [] chainId = "ethereum"  ->
            Len(addr) = 2 + 40 /\ addr[1] = "0" /\ addr[2] = "x" /\ AllIn(addr, 3, HexDigit)
      [] chainId = "bittensor" -> Len(addr) = 1 + 47 /\ addr[1] = "5" /\ AllIn(addr, 2, Alnum)
      [] chainId = "polkadot"  -> Len(addr) = 1 + 33 /\ addr[1] = "1" /\ AllIn(addr, 2, DotChar)
      [] OTHER                 -> Len(addr) >= 32

\* SUPPORTED_CHAINS.find(c => c.id === chain)?.name
chainName(id) ==
    CASE id = "solana"   -> "Solana"
      [] id = "ethereum" -> "Ethereum"
      [] id = "osmosis"  -> "Osmosis"
      [] OTHER           -> "undefined"

Rep(c, m) == [i \in 1..m |-> c]

\* the ids of the two selects: SUPPORTED_CHAINS filtered on type 'both' or
\* 'spot' (every entry), and the page's own PERP_EXCHANGES
SUPPORTED_CHAINS ==
    {"solana", "ethereum", "base", "arbitrum", "polygon", "optimism", "bittensor",
     "polkadot", "osmosis", "ronin"}
PERP_EXCHANGES_page == {"hyperliquid", "perpetual", "gmx", "synthetix"}

\* what the address field can hold: nothing, a blank, a short string, an
\* EVM address, a base58 string of 32 characters
FormWallets == { <<>>, <<" ">>, ExportWallet,
                 <<"0", "x">> \o Rep("a", 40), Rep("A", 32) }
\* chains of the select: two with a format of their own, one without
FormChains == {"solana", "ethereum", "osmosis"}
FormExchanges == {"hyperliquid", "gmx"}

setWallet ==
    /\ ~crashed
    /\ \E w \in FormWallets : walletInput' = w
    /\ UNCHANGED <<pageVariant, transactionType, chainSelect, loading, error, hasSearched,
                   sent, serverVars, txVars, rateVars, pageVars, exportVars>>

\* the select lists the exchanges while perp is selected, the chains otherwise
setChain ==
    /\ ~crashed
    /\ \E c \in (IF transactionType = "perp" THEN FormExchanges ELSE FormChains) :
            chainSelect' = c
    /\ UNCHANGED <<pageVariant, transactionType, walletInput, loading, error, hasSearched,
                   sent, serverVars, txVars, rateVars, pageVars, exportVars>>

\* the query of the request each page sends
Query(pv, w, c, type) ==
    [wallet |-> w, chain |-> c,
     type   |-> IF pv = "part_004" THEN NoStr ELSE type,
     mock   |-> IF pv = "part_005" THEN "true" ELSE NoStr]

\* perp records an answer can carry: an open and a closed position
PagePerpRows ==
    { receivedPerp(r) : r \in { h \in HyperliquidRecords :
                                  h.asset # "A,B" /\ IsNum(h.leverage)
                                  /\ (IsDefined(h.exit_price) => IsNum(h.exit_price)) } }

\* a click on Spot or on Perps/Futures: setTransactionType, and the render
\* with the new type of the records held.  Nothing else is reset
setTransactionType ==
    /\ ~crashed
    /\ pageVariant # "part_004"
    /\ \E type \in {"spot", "perp"} :
        /\ transactionType' = type
        /\ RenderAs(transactions, type, dateFilter, assetFilter, sideFilter, searchQuery)
    /\ UNCHANGED <<pageVariant, walletInput, chainSelect, loading, error, hasSearched,
                   sent, transactions, fetched, dateFilter, assetFilter, sideFilter,
                   searchQuery, serverVars, txVars, rateVars, download>>

\* fetchTransactions up to its await: a click on the button or Enter in the
\* address field.  part_005 defines validateWallet and does not call it
fetchTransactionsStart ==
    /\ ~crashed
    /\ sent.made < MaxFetches
    /\ IF IsBlank(walletInput)
       THEN /\ error' = (IF pageVariant = "part_005" THEN <<"Enter a wallet address">>
                         ELSE <<"Please enter a wallet address">>)
            /\ UNCHANGED <<loading, hasSearched, sent, pageVars, summary, crashed>>
       ELSE IF pageVariant # "part_005" /\ ~validateWallet(walletInput, chainSelect)
       THEN /\ error' = <<"Invalid ", chainName(chainSelect), " wallet address">>
            /\ UNCHANGED <<loading, hasSearched, sent, pageVars, summary, crashed>>
       ELSE /\ loading' = TRUE
            /\ error' = <<>>
            /\ hasSearched' = TRUE
            /\ sent' = [sent EXCEPT
                    !.made = @ + 1, !.pending = @ + 1,
                    !.last = Query(pageVariant, walletInput, chainSelect, transactionType),
                    !.flying = @ \cup {[id |-> sent.made + 1, type |-> transactionType]}]
            /\ IF pageVariant = "part_005"
               THEN /\ transactions' = <<>>
                    /\ Render(<<>>, dateFilter, assetFilter, sideFilter, searchQuery)
                    /\ UNCHANGED <<fetched, dateFilter, assetFilter, sideFilter, searchQuery>>
               ELSE UNCHANGED <<pageVars, summary, crashed>>
    /\ UNCHANGED <<pageVariant, transactionType, walletInput, chainSelect, serverVars,
                   txVars, rateVars, download>>

\* fetchTransactions from the await on: the answer, or the failure
\* the records a 200 answer carries: those of the type the request asked for
Answers(type) ==
    {<<>>} \cup {<<r>> : r \in (IF type = "perp" THEN PagePerpRows ELSE PageRows)}

\* the answers come in any order; nothing ties an answer to the request
\* that is the latest
fetchTransactionsSettle ==
    /\ ~crashed
    /\ \E f \in sent.flying :
        /\ sent' = [sent EXCEPT !.pending = @ - 1, !.flying = @ \ {f}, !.applied = f.id]
        /\ loading' = FALSE
        /\ \/ \E rows \in Answers(f.type) :
                /\ transactions' = rows
                /\ fetched' = rows
                /\ Render(rows, dateFilter, assetFilter, sideFilter, searchQuery)
                /\ UNCHANGED error
           \/ /\ error' = <<"Failed to fetch">>
              /\ IF pageVariant = "part_005"
                 THEN UNCHANGED <<transactions, fetched, view, summary, crashed>>
                 ELSE /\ transactions' = <<>>
                      /\ fetched' = <<>>
                      /\ Render(<<>>, dateFilter, assetFilter, sideFilter, searchQuery)
    /\ UNCHANGED <<pageVariant, transactionType, walletInput, chainSelect, hasSearched,
                   dateFilter, assetFilter, sideFilter, searchQuery, serverVars, txVars,
                   rateVars, download>>

\* what the page shows:
\* {!loading && hasSearched && filteredTransactions.length === 0 && (...)}
EmptyStateShown == ~loading /\ hasSearched /\ Len(view) = 0
\* {error && (<Alert variant="destructive">...)}
ErrorAlertShown == error # <<>>

-----------------------------------------------------------------------------
(* src/unnamed/part_002 and part_001: fetchAlliumTransactions under          *)
(* concurrent requests.  Each request runs the adapter on its own; the     *)
(* module keeps no state between them                                      *)

MaxRequests == 2        \* requests in flight
TickMs      == 550      \* the step of the clock, in ms
MaxClock    == 3300     \* the time one behaviour covers, in ms

RATE_LIMIT_DELAY == 1100

NotCalled == [at |-> "idle", wake |-> 0]

\* a request reaches fetchAlliumTransactions: await sleep(RATE_LIMIT_DELAY)
\* arms a timer of its own
fetchAlliumTransactionsSleep(i) ==
    /\ calling[i].at = "idle"
    /\ calling' = [calling EXCEPT ![i] = [at |-> "sleeping",
                                          wake |-> clock + RATE_LIMIT_DELAY]]
    /\ UNCHANGED <<clock, alliumCalls, serverVars, txVars, pageVars, clientVars>>

\* the timer has fired (no earlier than its delay): fetch(ALLIUM_API_URL...)
fetchAlliumTransactionsFetch(i) ==
    /\ calling[i].at = "sleeping"
    /\ clock >= calling[i].wake
    /\ calling' = [calling EXCEPT ![i].at = "awaiting"]
    /\ alliumCalls' = Append(alliumCalls, clock)
    /\ UNCHANGED <<clock, serverVars, txVars, pageVars, clientVars>>

\* the upstream has answered and the adapter returns
fetchAlliumTransactionsReturn(i) ==
    /\ calling[i].at = "awaiting"
    /\ calling' = [calling EXCEPT ![i].at = "returned"]
    /\ UNCHANGED <<clock, alliumCalls, serverVars, txVars, pageVars, clientVars>>

\* time passes
Tick ==
    /\ clock + TickMs <= MaxClock
    /\ clock' = clock + TickMs
    /\ UNCHANGED <<calling, alliumCalls, serverVars, txVars, pageVars, clientVars>>

-----------------------------------------------------------------------------
(* Specifications *)

ServerRest ==
    /\ pc = "idle"
    /\ req = NoReq
    /\ adapter = ""
    /\ upstream = NoUpstream
    /\ mockCall = NoGen
    /\ building = NoResp
    /\ resp = NoResp
    /\ nresp = 0
    /\ invoked = {}
    /\ log = {}
    /\ origin = "none"

\* route.ts reads neither key, part_002 reads only the indexer's
ServerInit ==
    /\ variant \in Variants
    /\ ALLIUM_API_KEY \in (IF variant = "route" THEN {FALSE} ELSE BOOLEAN)
    /\ ALCHEMY_API_KEY \in (IF variant = "part_001" THEN BOOLEAN ELSE {FALSE})
    /\ ServerRest

ServerIdle ==
    /\ variant = "route" /\ ALLIUM_API_KEY = FALSE /\ ALCHEMY_API_KEY = FALSE
    /\ ServerRest

TxIdle == tx = NoTx /\ txOut = NoTxOut

PageIdle ==
    /\ transactions = <<>>
    /\ fetched = <<>>
    /\ dateFilter = "all" /\ assetFilter = "all" /\ sideFilter = "all"
    /\ searchQuery = <<>>
    /\ view = <<>>

NoFetch == [made |-> 0, pending |-> 0,
            last |-> [wallet |-> <<>>, chain |-> "", type |-> NoStr, mock |-> NoStr],
            flying |-> {}, applied |-> 0]

FormRest ==
    /\ walletInput = <<>>
    /\ chainSelect = "solana"
    /\ loading = FALSE
    /\ error = <<>>
    /\ hasSearched = FALSE
    /\ sent = NoFetch
FormIdle == pageVariant = "page" /\ transactionType = "spot" /\ FormRest
ClientIdle ==
    /\ FormIdle
    /\ summary = summaryMemo(<<>>, "spot")
    /\ download = NoDownload
    /\ crashed = FALSE

RateIdle ==
    /\ clock = 0
    /\ calling = [i \in 1..MaxRequests |-> NotCalled]
    /\ alliumCalls = <<>>

\* the route serving a request
Init == ServerInit /\ TxIdle /\ PageIdle /\ ClientIdle /\ RateIdle
Next == GetRequest \/ AnswerAllium \/ AnswerAlchemy \/ AnswerHyperliquid
        \/ AnswerSolana \/ AnswerEVM \/ Generate
Spec == Init /\ [][Next]_vars

\* the route serving a request, with the scheduling the code justifies: the
\* handler's own steps run once enabled; no fetch() of an adapter carries a
\* timeout or an AbortSignal, so nothing makes an awaited upstream call end
Fairness == WF_vars(Generate)
SpecLive == Init /\ [][Next]_vars /\ Fairness

\* the classification rules on one indexer event
TxInit == ServerIdle /\ PageIdle /\ ClientIdle /\ RateIdle /\ tx \in AlliumEvents /\ txOut = NoTxOut
TxNext == Classify
SpecTx == TxInit /\ [][TxNext]_vars

\* the page: fetches and filter changes, each followed by its render
PageInit == ServerIdle /\ TxIdle /\ PageIdle /\ ClientIdle /\ RateIdle
PageNext == fetchTransactions \/ setDateFilter \/ setAssetFilter \/ setSideFilter
            \/ setSearchQuery
SpecPage == PageInit /\ [][PageNext]_vars

\* the page after a search of either type: the fetch, the side filter, and
\* one export
ExportInit ==
    /\ ServerIdle /\ TxIdle /\ PageIdle /\ RateIdle
    /\ pageVariant \in PageVariants
    /\ transactionType \in TypesOf(pageVariant)
    /\ walletInput = ExportWallet
    /\ chainSelect = (IF transactionType = "perp" THEN "hyperliquid" ELSE "solana")
    /\ loading = FALSE /\ error = <<>> /\ hasSearched = TRUE /\ sent = NoFetch
    /\ summary = summaryMemo(<<>>, transactionType)
    /\ download = NoDownload
    /\ crashed = FALSE
FormInit ==
    /\ ServerIdle /\ TxIdle /\ PageIdle /\ RateIdle
    /\ pageVariant \in PageVariants
    /\ transactionType = "spot"
    /\ FormRest
    /\ summary = summaryMemo(<<>>, transactionType)
    /\ download = NoDownload
    /\ crashed = FALSE
FormNext == setWallet \/ setChain \/ fetchTransactionsStart \/ fetchTransactionsSettle
SpecForm == FormInit /\ [][FormNext]_vars

\* a session on the pages that have the type toggle, with an address in the
\* field that the Solana format and the default format accept: toggles,
\* selections, fetches answered in any order, and one export
SessionInit ==
    /\ ServerIdle /\ TxIdle /\ PageIdle /\ RateIdle
    /\ pageVariant \in {"page", "part_005"}
    /\ transactionType = "spot"
    /\ walletInput = Rep("A", 32)
    /\ chainSelect = "solana"
    /\ loading = FALSE /\ error = <<>> /\ hasSearched = FALSE /\ sent = NoFetch
    /\ summary = summaryMemo(<<>>, transactionType)
    /\ download = NoDownload
    /\ crashed = FALSE
SessionNext == setTransactionType \/ setChain \/ fetchTransactionsStart
               \/ fetchTransactionsSettle \/ clickExport
SpecSession == SessionInit /\ [][SessionNext]_vars

\* the indexer routes, with their key configured, serving requests that
\* arrive at any time
RateInit ==
    /\ variant \in {"part_001", "part_002"}
    /\ ALLIUM_API_KEY = TRUE /\ ALCHEMY_API_KEY = FALSE
    /\ ServerRest /\ TxIdle /\ PageIdle /\ ClientIdle /\ RateIdle
RateNext ==
    \/ \E i \in 1..MaxRequests :
            \/ fetchAlliumTransactionsSleep(i)
            \/ fetchAlliumTransactionsFetch(i)
            \/ fetchAlliumTransactionsReturn(i)
    \/ Tick
SpecRate == RateInit /\ [][RateNext]_vars

ExportNext == fetchTransactionsOfType \/ setSideFilter \/ clickExport
SpecExport == ExportInit /\ [][ExportNext]_vars

-----------------------------------------------------------------------------
(* Properties of the route *)

Done        == pc = "done"
WalletGiven == req.wallet.given /\ req.wallet.value # <<>>
Success     == Done /\ resp.status = 200
IsPerp(r)   == "position_size" \in DOMAIN r
RequestedChain == StrOr(req.chain, "solana")
RequestedType  == StrOr(req.type, "spot")

\* the adapters that talk to an upstream, and the dispatchers in front of them
RealAdapters == {"fetchSpotTransactions", "fetchPerpTransactions",
                 "fetchHyperliquidTransactions", "fetchSolanaTransactions",
                 "fetchEVMTransactions", "fetchAlliumTransactions",
                 "fetchAlchemyTransactions"}

\* the upstream rejected the request: a 4xx that is not a rate limit
UpstreamRejected ==
    /\ upstream.kind = "response"
    /\ upstream.status >= 400 /\ upstream.status < 500 /\ upstream.status # 429

\* the requested chain or exchange is none the route knows
UnsupportedSource ==
    /\ variant = "route" /\ WalletGiven /\ req.mock # "true"
    /\ IF RequestedType = "perp"
       THEN PERP_EXCHANGES(RequestedChain).name = NoStr
       ELSE toLowerCase(RequestedChain) \notin RPC_ENDPOINTS

\* network failure, timeout, rate limit or 5xx
UpstreamUnavailable ==
    \/ upstream.kind = "throw"
    \/ /\ upstream.kind = "response"
       /\ upstream.status = 429 \/ upstream.status >= 500

\* no credential for the source the request is dispatched to
NoCredential ==
    CASE variant = "part_002" -> ~ALLIUM_API_KEY
      [] variant = "part_001" ->
            /\ ~ALLIUM_API_KEY
            /\ ~(toLowerCase(RequestedChain) = "ethereum" /\ ALCHEMY_API_KEY)
      [] OTHER -> FALSE

\* C1: a request whose real adapter failed on validation (unsupported
\* source, or an upstream 4xx other than 429) ends with an error response,
\* and never with synthetic records.
C1_ValidationFailureIsError ==
    (Done /\ (UpstreamRejected \/ UnsupportedSource))
        => /\ resp.status >= 400
           /\ resp.error # ""
           /\ origin # "synthetic"

\* C2: a request with a wallet whose mock flag is set, or whose source has
\* no credential, ends in success with synthetic records and no real adapter
\* invoked.
C2_MockOrNoCredentialIsSynthetic ==
    (Done /\ WalletGiven /\ (req.mock = "true" \/ NoCredential))
        => /\ resp.status = 200
           /\ origin = "synthetic"
           /\ invoked \cap RealAdapters = {}

\* C3: when the upstream of a real adapter is unavailable (the call fails,
\* or answers 429 or >= 500) the request ends in success with synthetic
\* records, whichever adapter it is.
C3_UnavailableFallsBackToSynthetic ==
    (Done /\ UpstreamUnavailable) => (resp.status = 200 /\ origin = "synthetic")

\* C4: a GET request gets exactly one response: 400 with an error and no
\* adapter invoked when the wallet is missing or empty; 500 with an error
\* when the adapter threw (the handler's catch ran); otherwise 200 with the
\* transactions and, in route.ts, the requested type.
C4_ExactlyOneResponse ==
    /\ nresp = (IF Done THEN 1 ELSE 0)
    /\ ~Done => resp = NoResp
    /\ Done =>
        \/ /\ ~WalletGiven
           /\ resp.status = 400 /\ resp.error # "" /\ invoked = {}
           /\ resp.transactions = <<>> /\ origin = "none"
        \/ /\ WalletGiven
           /\ "Error fetching transactions:" \in log
           /\ resp.status = 500 /\ resp.error # ""
           /\ resp.transactions = <<>> /\ origin = "none"
        \/ /\ WalletGiven
           /\ "Error fetching transactions:" \notin log
           /\ resp.status = 200 /\ resp.error = ""
           /\ origin \in {"real", "synthetic"}
           /\ variant = "route" => (resp.hasType /\ resp.type = RequestedType)
C4_Witness ==
    /\ Done /\ variant = "route" /\ resp.status = 200
    /\ req.type = "perp" /\ resp.type = "perp"
    /\ origin = "real" /\ Len(resp.transactions) = 2

\* C6: every perp record returned is LONG exactly when position_size >= 0
\* and SHORT exactly when position_size < 0, and its quantity is the
\* absolute value of position_size.
C6_PerpSideFollowsPositionSize ==
    Success => \A i \in 1..Len(resp.transactions) :
        LET r == resp.transactions[i]
        IN IsPerp(r) =>
            /\ r.side = "LONG"  <=> Ge0(r.position_size)
            /\ r.side = "SHORT" <=> Lt0(r.position_size)
            /\ NumEq(r.quantity, MathAbs(r.position_size))

\* C7: every perp record returned has exit_price and pnl both undefined
\* (open) or both defined (closed).
C7_OpenOrClosed ==
    Success => \A i \in 1..Len(resp.transactions) :
        LET r == resp.transactions[i]
        IN IsPerp(r) => (IsDefined(r.exit_price) <=> IsDefined(r.pnl))
C7_Witness ==
    /\ Success
    /\ \E i, j \in 1..Len(resp.transactions) :
        /\ IsPerp(resp.transactions[i]) /\ IsPerp(resp.transactions[j])
        /\ IsDefined(resp.transactions[i].exit_price) /\ IsDefined(resp.transactions[i].pnl)
        /\ ~IsDefined(resp.transactions[j].exit_price) /\ ~IsDefined(resp.transactions[j].pnl)

\* C8: the records of every successful response are sorted by timestamp,
\* most recent first.
C8_SortedByTimestampDesc ==
    Success => \A i \in 1..(Len(resp.transactions) - 1) :
        resp.transactions[i].timestamp >= resp.transactions[i + 1].timestamp

-----------------------------------------------------------------------------
(* Properties of the classification rules *)

\* the event names its deltas in native_change and token_change_amount only
OnlyDeltas == tx.native_transfer_amount = Undefined /\ tx.quantity = Undefined

\* C5: on (nativeDelta, tokenDelta) both determineSide give BUY for (>0, <0),
\* SELL for (<0, >0), and otherwise BUY, SELL or TRANSFER by the sign of
\* tokenDelta; in particular they agree.
C5_SpotSideClassification ==
    (txOut.done /\ OnlyDeltas) =>
        LET n == OrElse(tx.native_change, Num(0))
            t == OrElse(tx.token_change_amount, Num(0))
            side == IF Gt0(n) /\ Lt0(t) THEN "BUY"
                    ELSE IF Lt0(n) /\ Gt0(t) THEN "SELL"
                    ELSE IF Gt0(t) THEN "BUY"
                    ELSE IF Lt0(t) THEN "SELL"
                    ELSE "TRANSFER"
        IN txOut.side_001 = side /\ txOut.side_002 = side

\* C9: a spot record of the indexer adapter with price > 0 and quantity > 0
\* has total = quantity * price (the arithmetic of the model is exact).
C9_TotalIsQuantityTimesPrice ==
    txOut.done =>
        \A out \in {txOut.out_001, txOut.out_002} : \A i \in 1..Len(out.txs) :
            LET r == out.txs[i]
            IN (Gt0(r.price) /\ Gt0(r.quantity))
                    => NumEq(r.total, Mul(r.quantity, r.price))

-----------------------------------------------------------------------------
(* Properties of the page *)

DateOk(row)   == dateFilter = "all"
                 \/ (dateFilter = "week"  /\ NotBefore(row, Now - WeekDays))
                 \/ (dateFilter = "month" /\ NotBefore(row, Now - MonthDays))
AssetOk(row)  == assetFilter = "all" \/ row.asset = assetFilter
SideOk(row)   == sideFilter = "all" \/ row.side = sideFilter
SearchOk(row) == searchQuery = <<>>
                 \/ \E str \in {Chars(row.asset), row.hash, Chars(row.side)} :
                        includes(toLowerCaseChars(str), toLowerCaseChars(searchQuery))
Satisfies(row) == DateOk(row) /\ AssetOk(row) /\ SideOk(row) /\ SearchOk(row)

\* C10: the view is the fetched records that satisfy every active filter,
\* in their order; the fetched sequence stays as fetched; with every filter
\* at "all" and no search the view is the whole sequence; the asset and the
\* side filter commute.
C10_FilteredView ==
    /\ view = SelectSeq(transactions, Satisfies)
    /\ transactions = fetched
    /\ (dateFilter = "all" /\ assetFilter = "all" /\ sideFilter = "all"
            /\ searchQuery = <<>>) => view = transactions
    /\ \A af \in {"all"} \cup uniqueAssets, sf \in SideFilters :
            bySide(byAsset(transactions, af), sf) = byAsset(bySide(transactions, sf), af)
C10_Witness ==
    /\ assetFilter # "all" /\ sideFilter # "all" /\ dateFilter # "all"
    /\ Len(transactions) = 2 /\ Len(view) = 1
    /\ view[1] = transactions[2]

\* the age a date filter allows, in days
C11_Window == IF dateFilter = "week" THEN 7 ELSE 30
C11_InRange(row) ==
    dateFilter = "all"
    \/ (row.timestamp.k = "num" /\ row.timestamp.n + C11_Window >= Now)

\* C11: with the date filter at "week" (or "month") the view keeps exactly
\* the records whose timestamp is at or after now minus 7 (or 30) days, the
\* boundary included; at "all" the date filter keeps every record.
C11_DateFilter ==
    /\ byDate(transactions, dateFilter) = SelectSeq(transactions, C11_InRange)
    /\ \A i \in 1..Len(view) : C11_InRange(view[i])
    /\ (assetFilter = "all" /\ sideFilter = "all" /\ searchQuery = <<>>)
            => view = SelectSeq(transactions, C11_InRange)
    /\ dateFilter = "all" => byDate(transactions, dateFilter) = transactions
C11_Witness ==
    /\ dateFilter = "week" /\ assetFilter = "all" /\ sideFilter = "all"
    /\ searchQuery = <<>>
    /\ Len(transactions) = 2 /\ Len(view) = 1
    /\ view[1].timestamp = Num(Now - WeekDays)
    /\ transactions[1].timestamp = Num(Now - 10)

\* the query occurs in str at some offset, letters compared without case
C12_OccursIn(str) ==
    \E k \in 0..(Len(str) - Len(searchQuery)) :
        \A i \in 1..Len(searchQuery) :
            toLowerCaseChar(str[k + i]) = toLowerCaseChar(searchQuery[i])
C12_Matches(row) ==
    C12_OccursIn(Chars(row.asset)) \/ C12_OccursIn(row.hash)
        \/ C12_OccursIn(Chars(row.side))

\* C12: the search keeps a record exactly when the query, compared without
\* regard to case, is a substring of its asset, its hash or its side; an
\* empty query keeps every record.
C12_Search ==
    /\ bySearch(transactions, searchQuery) = SelectSeq(transactions, C12_Matches)
    /\ \A i \in 1..Len(view) : C12_Matches(view[i])
    /\ (dateFilter = "all" /\ assetFilter = "all" /\ sideFilter = "all")
            => view = SelectSeq(transactions, C12_Matches)
    /\ searchQuery = <<>> => bySearch(transactions, searchQuery) = transactions
C12_Witness ==
    /\ searchQuery = <<"U", "Y">>
    /\ dateFilter = "all" /\ assetFilter = "all" /\ sideFilter = "all"
    /\ Len(transactions) = 2 /\ Len(view) = 1
    /\ view[1].side = "BUY" /\ transactions[1].side = "SELL"

-----------------------------------------------------------------------------
(* Properties of the summary and of the export *)

\* the pnl of the records of the view that have one, added up; the amounts
\* of the model are whole numbers
C13_PnlSum ==
    LET S[i \in 0..Len(view)] ==
            IF i = 0 THEN 0
            ELSE S[i - 1] + (IF view[i].pnl.k = "num" THEN view[i].pnl.n ELSE 0)
    IN S[Len(view)]
C13_Open == {i \in 1..Len(view) : view[i].exit_price.k = "undef"}

\* C13: over perp records the summary's open-position count is the number
\* of records whose exit_price is absent, and totalPnl is the sum of pnl over
\* the records whose pnl is defined; when every record is open the count is
\* the length and totalPnl is 0.
C13_PerpSummary ==
    transactionType = "perp" =>
        /\ summary.openPositions = Cardinality(C13_Open)
        /\ NumEq(summary.totalPnl, Num(C13_PnlSum))
        /\ (\A i \in 1..Len(view) :
                view[i].exit_price.k = "undef" /\ view[i].pnl.k = "undef")
            => /\ summary.openPositions = Len(view)
               /\ NumEq(summary.totalPnl, Num(0))
C13_Witness ==
    /\ transactionType = "perp" /\ Len(view) = 2
    /\ view[1].pnl = Undefined /\ view[1].exit_price = Undefined
    /\ view[2].pnl = Num(-1) /\ view[2].exit_price = Num(2)
    /\ summary.openPositions = 1 /\ summary.totalPnl = Num(-1)

\* an amount of the model as a whole number
C14_Whole(x) == IF x.n = 0 THEN 0 ELSE x.n
C14_TotalOf(side) ==
    LET S[i \in 0..Len(view)] ==
            IF i = 0 THEN 0
            ELSE S[i - 1] + (IF view[i].side = side THEN C14_Whole(view[i].total) ELSE 0)
    IN S[Len(view)]
C14_Fees ==
    LET S[i \in 0..Len(view)] ==
            IF i = 0 THEN 0 ELSE S[i - 1] + C14_Whole(view[i].fees)
    IN S[Len(view)]

\* C14: over spot records the summary's totalBuys (totalSells) is the sum
\* of total over exactly the BUY (SELL) records, totalFees the sum of fees
\* over all records, tradeCount the number of records and the asset count the
\* number of distinct assets; a record of any other side counts towards
\* tradeCount and fees only.
C14_SpotSummary ==
    transactionType = "spot" =>
        /\ \A i \in 1..Len(view) : \A x \in {view[i].total, view[i].fees} :
                x.k = "num" /\ (x.n = 0 \/ (x.d = 1 /\ x.e = 0))
        /\ NumEq(summary.totalBuys, Num(C14_TotalOf("BUY")))
        /\ NumEq(summary.totalSells, Num(C14_TotalOf("SELL")))
        /\ NumEq(summary.totalFees, Num(C14_Fees))
        /\ summary.tradeCount = Len(view)
        /\ summary.uniqueAssets = Cardinality({view[i].asset : i \in 1..Len(view)})
C14_Witness ==
    /\ transactionType = "spot" /\ Len(view) = 2
    /\ view[1].side = "BUY" /\ view[1].total = Num(2)
    /\ view[2].side = "TRANSFER" /\ view[2].total = Num(1)
    /\ summary.totalBuys = Num(2) /\ summary.totalSells = Num(0)
    /\ summary.tradeCount = 2

\* the columns of each record type, in order
C15_Columns ==
    IF transactionType = "perp"
    THEN <<"timestamp", "asset", "side", "quantity", "entry_price", "exit_price", "pnl",
           "fees", "funding", "exchange", "leverage", "liquidation", "chain", "hash">>
    ELSE <<"timestamp", "chain", "asset", "side", "quantity", "price", "total", "fees",
           "hash">>
\* the text of one column of a record
C15_Field(row, col) ==
    CASE col = "timestamp"   -> IsoText(row.timestamp)
      [] col = "hash"        -> row.hash
      [] col \in {"asset", "side", "chain", "exchange"} -> Text(row[col])
      [] col = "liquidation" -> IF row.liquidation = "true" THEN <<"YES">> ELSE <<"NO">>
      [] col \in {"exit_price", "pnl"} ->
            IF row[col].k = "num" THEN NumberToString(row[col]) ELSE <<>>
      [] OTHER               -> NumberToString(row[col])
C15_Line(row) ==
    join([j \in 1..Len(C15_Columns) |-> C15_Field(row, C15_Columns[j])], Comma)
C15_HeaderLine ==
    join([j \in 1..Len(C15_Columns) |-> <<C15_Columns[j]>>], Comma)

\* the layout of the file an export made of the sequence it exported
C15_Layout ==
    download.made =>
        /\ download.text = join(<<C15_HeaderLine>>
                                \o [i \in 1..Len(download.of) |-> C15_Line(download.of[i])],
                                Newline)
        /\ LET lines == split(download.text, Newline)
           IN /\ Len(lines) = Len(download.of) + 1
              /\ split(lines[1], Comma) = [j \in 1..Len(C15_Columns) |-> <<C15_Columns[j]>>]

C16_Lines == split(download.text, Newline)
C16_Column(name) ==
    CHOOSE j \in 1..Len(split(C16_Lines[1], Comma)) :
        split(C16_Lines[1], Comma)[j] = <<name>>

\* C16: in a perp CSV row the exit_price and pnl fields are empty exactly
\* when the record has no such field; a value that is there, 0 included, is
\* written as its decimal string.  (Rows that a comma inside a field has
\* split into more fields than the header are left to C18.)
C16_EmptyIffAbsent ==
    (download.made /\ transactionType = "perp") =>
        \A i \in 1..Len(download.of) : \A name \in {"exit_price", "pnl"} :
            LET fields == split(C16_Lines[i + 1], Comma)
                value  == download.of[i][name]
            IN Len(fields) = Len(split(C16_Lines[1], Comma)) =>
                /\ fields[C16_Column(name)] = <<>> <=> value = Undefined
                /\ value.k = "num" => fields[C16_Column(name)] = <<ToString(value.n)>>

\* C17: an export of an empty perp sequence still hands over a file, whose
\* text is the header line in the perp column order.
C17_HeaderOnEmpty ==
    (download.asked /\ transactionType = "perp" /\ download.of = <<>>) =>
        /\ download.made
        /\ download.text = join([j \in 1..Len(perpHeaders) |-> <<perpHeaders[j]>>], Comma)

\* C18: splitting the exported text on \n and each line on commas, and
\* dropping the header, gives one row per exported record, in order, whose
\* fields are the texts of the record's fields in column order.
C18_RoundTrip ==
    download.made =>
        LET lines == split(download.text, Newline)
        IN /\ Len(lines) = Len(download.of) + 1
           /\ \A i \in 1..Len(download.of) :
                split(lines[i + 1], Comma)
                    = [j \in 1..Len(C15_Columns) |-> C15_Field(download.of[i], C15_Columns[j])]

-----------------------------------------------------------------------------
(* Properties of the route, continued *)

\* the console messages that say mock data is being used
C19_Notices == {"Using mock data (no Allium API key or mock=true)",
                "Allium API error, falling back to mock data"}
\* the request was answered with the generator's records though it did not
\* ask for them
C19_Downgraded == Success /\ WalletGiven /\ req.mock # "true" /\ origin = "synthetic"

\* C19: a request made without the mock flag that is answered with
\* synthetic records shows it: a console message of the request says that
\* mock data is used (the response bodies of the three routes carry
\* transactions, type and error only, so no response field can show it).
C19_DowngradeObservable ==
    C19_Downgraded => log \cap C19_Notices # {}

-----------------------------------------------------------------------------
(* Properties of the search form *)

\* C20: a fetch triggered while the wallet does not have the format of the
\* selected chain sets the inline message and sends nothing: no request is
\* made, loading stays as it is (false), the held transactions are unchanged.
C20_InvalidWalletSendsNothing ==
    [][(fetchTransactionsStart /\ ~validateWallet(walletInput, chainSelect))
        => /\ error' # <<>>
           /\ sent' = sent
           /\ loading' = loading /\ (~loading => ~loading')
           /\ transactions' = transactions]_vars

-----------------------------------------------------------------------------
(* Properties of the page: what it shows after a fetch *)

\* C21: the "No transactions found" card and the alert of a failed fetch
\* are never on the page together: while the card is shown, the message
\* held is not the one a failed fetch has set.
C21_EmptyStateDistinctFromError ==
    EmptyStateShown => ~(ErrorAlertShown /\ error = <<"Failed to fetch">>)

-----------------------------------------------------------------------------
(* Properties of the route: the sources the page offers *)

\* the request carries an id of the select shown for its type
C22_Offered ==
    IF RequestedType = "perp"
    THEN req.chain \in PERP_EXCHANGES_page
    ELSE req.chain \in SUPPORTED_CHAINS
C22_Rejections == {"Unsupported chain", "Chain not yet implemented for spot trading",
                   "Unsupported perp exchange"}

\* C22: a non-mock request of route.ts that carries the id of a chain or an
\* exchange the page offers is handed to an adapter behind the dispatcher
\* and is not answered with an unsupported or not-yet-implemented error.
C22_OfferedSourceIsDispatched ==
    (Done /\ variant = "route" /\ WalletGiven /\ req.mock # "true" /\ C22_Offered)
        => /\ resp.error \notin C22_Rejections
           /\ invoked \ {"fetchSpotTransactions", "fetchPerpTransactions"} # {}

-----------------------------------------------------------------------------
(* Properties of the route: termination *)

\* C23: every request is eventually answered, also when the upstream call
\* it awaits never ends: a handler that awaits an upstream call eventually
\* sends its response.
C23_EveryRequestIsAnswered == (pc = "awaiting") ~> Done

-----------------------------------------------------------------------------
(* Properties of the route: failures on single items *)

\* C24: when the call for one underlying item of an RPC answer fails (one
\* transaction of the Solana adapter, one log's block of the EVM adapter),
\* the request still succeeds with the records the adapter built from the
\* other items.
C24_ItemFailureSkipsOnlyTheItem ==
    (Done /\ variant = "route" /\ upstream.itemFailed)
        => (resp.status = 200 /\ origin = "real")

-----------------------------------------------------------------------------
(* Properties of the indexer adapter: rate limiting *)

\* C25: any two calls the indexer adapter makes to its upstream are at
\* least RATE_LIMIT_DELAY apart, whichever requests they serve.
C25_CallsAreSpaced ==
    \A i, j \in 1..Len(alliumCalls) :
        i < j => alliumCalls[j] - alliumCalls[i] >= RATE_LIMIT_DELAY

-----------------------------------------------------------------------------
(* Properties of the route: perp records *)

\* C26: the perp records of one successful response have pairwise distinct
\* hash values.
C26_PerpHashesAreDistinct ==
    Success => \A i, j \in 1..Len(resp.transactions) :
        (/\ i < j
         /\ IsPerp(resp.transactions[i])
         /\ IsPerp(resp.transactions[j]))
            => resp.transactions[i].hash # resp.transactions[j].hash

\* C27: every perp record returned with liquidation = true is a closed
\* position: its exit_price and pnl are defined.
C27_LiquidatedIsClosed ==
    Success => \A i \in 1..Len(resp.transactions) :
        LET r == resp.transactions[i]
        IN (IsPerp(r) /\ r.liquidation = "true")
                => (IsDefined(r.exit_price) /\ IsDefined(r.pnl))

-----------------------------------------------------------------------------
(* Properties of the page: the type toggle and concurrent fetches *)

\* C28: the type the page summarizes and exports with is the type the
\* records it holds were fetched with: while transactionType is perp every
\* record held is a perp record, while it is spot every record held is a
\* spot record.
C28_TypeMatchesHeldRecords ==
    \A i \in 1..Len(transactions) :
        IsPerp(transactions[i]) <=> (transactionType = "perp")

\* C29: while a request is in flight loading is true; once none is, loading
\* is false and the outcome applied last is that of the request issued last.
C29_LatestRequestWins ==
    ~crashed =>
        /\ sent.flying # {} => loading
        /\ (sent.flying = {} /\ sent.made > 0)
                => (~loading /\ sent.applied = sent.made)

\* C30: the source id of a request sent is one of the record type sent with
\* it: an exchange of the page's list with type=perp, a chain of the page's
\* list with type=spot.
C30_SourceMatchesType ==
    sent.made > 0 =>
        IF sent.last.type = "perp"
        THEN sent.last.chain \in PERP_EXCHANGES_page
        ELSE sent.last.chain \in SUPPORTED_CHAINS

=============================================================================
